---- MODULE Spec2Model ----
(***************************************************************************)
(* Assembly store of the jigsaw puzzle (usePuzzleStore.ts): the reducer,   *)
(* the snap/merge procedure performSnap and the geometry helpers it uses.  *)
(*                                                                         *)
(* Numbers.  The program computes in IEEE doubles; the model computes in   *)
(* integers.  Image and board coordinates are whole units, cos and sin are *)
(* taken from a table in thousandths and every quotient is rounded to the  *)
(* nearest unit (RoundDiv).  For rotation 0 and for the grid used here the *)
(* arithmetic is exact.                                                    *)
(***************************************************************************)
EXTENDS Integers, Sequences, FiniteSets, TLC

VARIABLES pieces, groups, selectedId, imageLoaded, completed, nextZ, now, last

\* PuzzleBoard: the gesture in progress (dragRef, pinchRef), the pause flag
\* and the number of fingers on the screen (e.touches.length).
VARIABLES dragRef, pinchRef, paused, touches

storeVars == <<pieces, groups, selectedId, imageLoaded, completed, nextZ>>
boardVars == <<dragRef, pinchRef, paused, touches>>
vars == <<storeVars, now, last, boardVars>>

(***************************************************************************)
(* Small arithmetic helpers.                                               *)
(***************************************************************************)
Abs(n) == IF n < 0 THEN -n ELSE n

Min(a, b) == IF a < b THEN a ELSE b

Max(a, b) == IF a > b THEN a ELSE b

\* Quotient rounded to the nearest integer (halves upwards), d > 0.
RoundDiv(n, d) == (2 * n + d) \div (2 * d)

\* The JavaScript remainder a % b for b > 0: it takes the sign of a.
JsRem(a, b) == IF a >= 0 THEN a % b ELSE -((-a) % b)

\* Math.round(Math.sqrt(n / d)) for n >= 0, d > 0.
RoundSqrt(n, d) ==
  CHOOSE k \in 0..(n + 1) :
    /\ (k = 0 \/ (2 * k - 1) * (2 * k - 1) * d <= 4 * n)
    /\ 4 * n < (2 * k + 1) * (2 * k + 1) * d

\* cos and sin in thousandths for the rotations the model uses.
TrigTable ==
  [a \in {0, 10, 11, 15, 16, 30, 90, 180, 270, 345, 350, 355} |->
     CASE a = 0   -> <<1000, 0>>
       [] a = 10  -> <<985, 174>>
       [] a = 11  -> <<982, 191>>
       [] a = 15  -> <<966, 259>>
       [] a = 16  -> <<961, 276>>
       [] a = 30  -> <<866, 500>>
       [] a = 90  -> <<0, 1000>>
       [] a = 180 -> <<-1000, 0>>
       [] a = 270 -> <<0, -1000>>
       [] a = 345 -> <<966, -259>>
       [] a = 350 -> <<985, -174>>
       [] a = 355 -> <<996, -87>>]

CosMilli(deg) == TrigTable[deg % 360][1]

SinMilli(deg) == TrigTable[deg % 360][2]

(***************************************************************************)
(* Program constants.                                                      *)
(***************************************************************************)
SNAP_DISTANCE == 20

SNAP_ANGLE == 15

Null == "null"

\* dragRef.current = null and pinchRef.current = null, as records.
NoDrag == [id |-> Null, mode |-> "none"]

NoPinch == [mode |-> "none", targetId |-> Null]

initialState ==
  [pieces |-> <<>>, groups |-> <<>>, selectedId |-> Null,
   imageLoaded |-> FALSE, completed |-> FALSE, nextZ |-> 1]

(***************************************************************************)
(* The caller's arguments to initialize: image, board, piece count.        *)
(***************************************************************************)
ImgWidth == 240

ImgHeight == 240

BoardWidth == 400

BoardHeight == 400

PieceCount == 4

\* scaleRef.current as initialize computes it (exact for these dimensions).
Scale == Min((BoardWidth * 6) \div (ImgWidth * 10),
             (BoardHeight * 6) \div (ImgHeight * 10))

(***************************************************************************)
(* Grid generator: geometry of the cells.                                  *)
(***************************************************************************)
Cols == Max(2, RoundSqrt(PieceCount * ImgWidth, ImgHeight))

Rows == Max(2, RoundDiv(PieceCount, Cols))

CellW == ImgWidth \div Cols

CellH == ImgHeight \div Rows

TabSize == (Min(CellW, CellH) * 3) \div 10

PieceIdTable ==
  <<"piece-0", "piece-1", "piece-2", "piece-3", "piece-4", "piece-5",
    "piece-6", "piece-7", "piece-8", "piece-9", "piece-10", "piece-11">>

PieceId(n) == PieceIdTable[n + 1]

NumPieces == Rows * Cols

PieceIds == {PieceId(n) : n \in 0..(NumPieces - 1)}

\* neighborIds of cell (r, c): up, down, left, right.
GridNeighbors(r, c) ==
  (IF r > 0 THEN <<PieceId((r - 1) * Cols + c)>> ELSE <<>>)
  \o (IF r < Rows - 1 THEN <<PieceId((r + 1) * Cols + c)>> ELSE <<>>)
  \o (IF c > 0 THEN <<PieceId(r * Cols + (c - 1))>> ELSE <<>>)
  \o (IF c < Cols - 1 THEN <<PieceId(r * Cols + (c + 1))>> ELSE <<>>)

\* One piece; place is the random draw [x, y, rotation] for this cell.
MakePiece(r, c, place) ==
  LET x0 == c * CellW
      y0 == r * CellH
      x1 == x0 + CellW
      y1 == y0 + CellH
  IN [id |-> PieceId(r * Cols + c),
      polygon |-> << <<x0 - TabSize, y0 - TabSize>>,
                     <<x1 + TabSize, y0 - TabSize>>,
                     <<x1 + TabSize, y1 + TabSize>>,
                     <<x0 - TabSize, y1 + TabSize>> >>,
      path |-> "path-" \o PieceId(r * Cols + c),
      centroid |-> <<(x0 + x1) \div 2, (y0 + y1) \div 2>>,
      x |-> place.x,
      y |-> place.y,
      rotation |-> place.rotation,
      neighborIds |-> GridNeighbors(r, c),
      zIndex |-> r * Cols + c]

\* The piece list in generation order; placement[n] is the draw of piece n.
generatePuzzlePieces(placement) ==
  [n \in 1..NumPieces |->
     MakePiece((n - 1) \div Cols, (n - 1) % Cols, placement[n])]

(***************************************************************************)
(* Grid generator for any requested count and image: the same steps with   *)
(* the grid computed from the arguments.                                   *)
(***************************************************************************)
padding == 60

\* Variant: the column count is not held at two or more.
GridColsUnclamped(count, imgWidth, imgHeight) ==
  RoundSqrt(count * imgWidth, imgHeight)

GridCols(count, imgWidth, imgHeight) ==
  Max(2, RoundSqrt(count * imgWidth, imgHeight))

GridRows(count, imgWidth, imgHeight) ==
  Max(2, RoundDiv(count, GridCols(count, imgWidth, imgHeight)))

\* Variant: the neighbor to the right is left out.
NeighborsInNoRight(cols, rows, r, c) ==
  (IF r > 0 THEN <<PieceId((r - 1) * cols + c)>> ELSE <<>>)
  \o (IF r < rows - 1 THEN <<PieceId((r + 1) * cols + c)>> ELSE <<>>)
  \o (IF c > 0 THEN <<PieceId(r * cols + (c - 1))>> ELSE <<>>)

\* neighborIds of cell (r, c) of a grid of rows x cols cells.
NeighborsIn(cols, rows, r, c) ==
  (IF r > 0 THEN <<PieceId((r - 1) * cols + c)>> ELSE <<>>)
  \o (IF r < rows - 1 THEN <<PieceId((r + 1) * cols + c)>> ELSE <<>>)
  \o (IF c > 0 THEN <<PieceId(r * cols + (c - 1))>> ELSE <<>>)
  \o (IF c < cols - 1 THEN <<PieceId(r * cols + (c + 1))>> ELSE <<>>)

\* An edge of a path: the point the line ends at and, for a curved edge, the
\* tip of the bulge, the end point of the first of the two curves.  points
\* are the coordinates the path names from the first L to the last, in
\* thousandths as f prints them: the shoulder, the two control points of the
\* first curve, the tip, the two control points of the second curve, the
\* other shoulder and the end of the edge.
FlatEdge(endX, endY) ==
  [curved |-> FALSE, tip |-> <<endX, endY>>, end |-> <<endX, endY>>,
   points |-> << <<endX * 1000, endY * 1000>> >>]

\* The eight points of a horizontal edge; s is 1 from left to right and -1
\* from right to left, e = cellW * 0.2, r = cellW * 0.15, mx = (xa + xb) / 2.
hEdgePoints(xa, xb, y, hy, cellW, s) ==
  LET mx == (xa + xb) * 500
      e == cellW * 200
      r == cellW * 150
  IN << <<xa * 1000 + s * e, y * 1000>>,
        <<xa * 1000 + s * e, y * 1000 + hy * 500>>,
        <<mx - s * r, (y + hy) * 1000>>,
        <<mx, (y + hy) * 1000>>,
        <<mx + s * r, (y + hy) * 1000>>,
        <<xb * 1000 - s * e, y * 1000 + hy * 500>>,
        <<xb * 1000 - s * e, y * 1000>>,
        <<xb * 1000, y * 1000>> >>

\* The eight points of a vertical edge; s is 1 from top to bottom and -1
\* from bottom to top, e = cellH * 0.2, r = cellH * 0.15, my = (ya + yb) / 2.
vEdgePoints(ya, yb, x, hx, cellH, s) ==
  LET my == (ya + yb) * 500
      e == cellH * 200
      r == cellH * 150
  IN << <<x * 1000, ya * 1000 + s * e>>,
        <<x * 1000 + hx * 500, ya * 1000 + s * e>>,
        <<(x + hx) * 1000, my - s * r>>,
        <<(x + hx) * 1000, my>>,
        <<(x + hx) * 1000, my + s * r>>,
        <<x * 1000 + hx * 500, yb * 1000 - s * e>>,
        <<x * 1000, yb * 1000 - s * e>>,
        <<x * 1000, yb * 1000>> >>

\* Variant: the bulge of a reversed edge is drawn like that of a top edge.
hEdgeSegmentAsTop(xa, xb, y, dir, cellW, tabSize, reversed) ==
  IF dir = 0 THEN FlatEdge(xb, y)
  ELSE [curved |-> TRUE,
        tip |-> <<(xa + xb) \div 2, y - tabSize * dir>>,
        end |-> <<xb, y>>,
        points |-> hEdgePoints(xa, xb, y, -tabSize * dir, cellW,
                               IF xa < xb THEN 1 ELSE -1)]

\* hEdgeSegment: the edge from xa to xb at height y.
hEdgeSegment(xa, xb, y, dir, cellW, tabSize, reversed) ==
  IF dir = 0 THEN FlatEdge(xb, y)
  ELSE LET hy == (IF reversed THEN 1 ELSE -1) * tabSize * dir
       IN [curved |-> TRUE,
           tip |-> <<(xa + xb) \div 2, y + hy>>,
           end |-> <<xb, y>>,
           points |-> IF xa < xb
                      THEN hEdgePoints(xa, xb, y, hy, cellW, 1)
                      ELSE hEdgePoints(xa, xb, y, hy, cellW, -1)]

\* Variant: an edge going up is drawn with the shoulders and the control
\* points of an edge going down.
vEdgeSegmentOneWay(ya, yb, x, dir, cellH, tabSize, reversed) ==
  IF dir = 0 THEN FlatEdge(x, yb)
  ELSE LET hx == (IF reversed THEN -1 ELSE 1) * tabSize * dir
       IN [curved |-> TRUE,
           tip |-> <<x + hx, (ya + yb) \div 2>>,
           end |-> <<x, yb>>,
           points |-> vEdgePoints(ya, yb, x, hx, cellH, 1)]

\* vEdgeSegment: the edge from ya to yb at abscissa x.
vEdgeSegment(ya, yb, x, dir, cellH, tabSize, reversed) ==
  IF dir = 0 THEN FlatEdge(x, yb)
  ELSE LET hx == (IF reversed THEN -1 ELSE 1) * tabSize * dir
       IN [curved |-> TRUE,
           tip |-> <<x + hx, (ya + yb) \div 2>>,
           end |-> <<x, yb>>,
           points |-> IF ya < yb
                      THEN vEdgePoints(ya, yb, x, hx, cellH, 1)
                      ELSE vEdgePoints(ya, yb, x, hx, cellH, -1)]

\* buildPiecePath: the four edges in the order they are drawn, top, right,
\* bottom, left.
buildPiecePath(x0, y0, x1, y1, cellW, cellH, tabSize, topDir, rightDir, bottomDir, leftDir) ==
  <<hEdgeSegment(x0, x1, y0, topDir, cellW, tabSize, FALSE),
    vEdgeSegment(y0, y1, x1, rightDir, cellH, tabSize, FALSE),
    hEdgeSegment(x1, x0, y1, bottomDir, cellW, tabSize, TRUE),
    vEdgeSegment(y1, y0, x0, leftDir, cellH, tabSize, TRUE)>>

\* generatePuzzlePieces(imgWidth, imgHeight, count, ...); draw[n] is the
\* random [x, y, rotation] of piece n, coins.hEdge and coins.vEdge are the
\* tables of the random edge directions.
generateFor(count, imgWidth, imgHeight, draw, coins) ==
  LET cols == GridCols(count, imgWidth, imgHeight)
      rows == GridRows(count, imgWidth, imgHeight)
      cellW == imgWidth \div cols
      cellH == imgHeight \div rows
      tabSize == (Min(cellW, cellH) * 3) \div 10
  IN [n \in 1..(rows * cols) |->
        LET r == (n - 1) \div cols
            c == (n - 1) % cols
            x0 == c * cellW
            y0 == r * cellH
            x1 == x0 + cellW
            y1 == y0 + cellH
            topDir == IF r > 0 THEN -coins.hEdge[r - 1][c] ELSE 0
            rightDir == IF c < cols - 1 THEN coins.vEdge[r][c] ELSE 0
            bottomDir == IF r < rows - 1 THEN coins.hEdge[r][c] ELSE 0
            leftDir == IF c > 0 THEN -coins.vEdge[r][c - 1] ELSE 0
        IN [id |-> PieceId(r * cols + c),
            polygon |-> << <<x0 - tabSize, y0 - tabSize>>,
                           <<x1 + tabSize, y0 - tabSize>>,
                           <<x1 + tabSize, y1 + tabSize>>,
                           <<x0 - tabSize, y1 + tabSize>> >>,
            path |-> buildPiecePath(x0, y0, x1, y1, cellW, cellH, tabSize,
                                    topDir, rightDir, bottomDir, leftDir),
            centroid |-> <<(x0 + x1) \div 2, (y0 + y1) \div 2>>,
            x |-> draw[n].x,
            y |-> draw[n].y,
            rotation |-> draw[n].rotation,
            neighborIds |-> NeighborsIn(cols, rows, r, c),
            zIndex |-> r * cols + c]]

(***************************************************************************)
(* Sequence helpers.                                                       *)
(***************************************************************************)
Range(s) == {s[i] : i \in 1..Len(s)}

Includes(s, e) == \E i \in 1..Len(s) : s[i] = e

RECURSIVE SeqSum(_)
SeqSum(s) == IF s = <<>> THEN 0 ELSE Head(s) + SeqSum(Tail(s))

RECURSIVE Flatten(_)
Flatten(ss) == IF ss = <<>> THEN <<>> ELSE Head(ss) \o Flatten(Tail(ss))

\* Insertion order of a JavaScript Set filled from s.
RECURSIVE Dedupe(_, _)
Dedupe(s, seen) ==
  IF s = <<>> THEN <<>>
  ELSE IF Head(s) \in seen THEN Dedupe(Tail(s), seen)
       ELSE <<Head(s)>> \o Dedupe(Tail(s), seen \cup {Head(s)})

(***************************************************************************)
(* geometry.ts                                                             *)
(***************************************************************************)
\* Mean of all vertices of all polygons.
groupCentroid(polygons) ==
  LET coord(k) ==
        SeqSum([i \in 1..Len(polygons) |->
                  SeqSum([j \in 1..Len(polygons[i]) |-> polygons[i][j][k]])])
      totalPts == SeqSum([i \in 1..Len(polygons) |-> Len(polygons[i])])
  IN <<RoundDiv(coord(1), totalPts), RoundDiv(coord(2), totalPts)>>

\* Square of dist(a, b); dist(a, b) > d exactly when distSq(a, b) > d * d.
distSq(a, b) ==
  (a[1] - b[1]) * (a[1] - b[1]) + (a[2] - b[2]) * (a[2] - b[2])

(***************************************************************************)
(* performSnap and its local helpers.  A state st is a record with the     *)
(* fields of PuzzleState.                                                  *)
(***************************************************************************)
HasPiece(st, id) == \E i \in 1..Len(st.pieces) : st.pieces[i].id = id

\* pieceMap.get(id), defined when HasPiece(st, id).
PieceOf(st, id) ==
  st.pieces[CHOOSE i \in 1..Len(st.pieces) :
              /\ st.pieces[i].id = id
              /\ \A j \in (i + 1)..Len(st.pieces) : st.pieces[j].id # id]

HasGroup(st, id) == \E i \in 1..Len(st.groups) : st.groups[i].id = id

\* groups.find((g) => g.id === id): the first group with that id.
GroupOf(st, id) ==
  st.groups[CHOOSE i \in 1..Len(st.groups) :
              /\ st.groups[i].id = id
              /\ \A j \in 1..(i - 1) : st.groups[j].id # id]

AsEntity(e, ids) ==
  [entityId |-> e.id, pieceIds |-> ids, x |-> e.x, y |-> e.y,
   rotation |-> e.rotation, centroid |-> e.centroid]

HasActive(st, activeId) == HasGroup(st, activeId) \/ HasPiece(st, activeId)

\* The active entity: a group with that id, else a piece with that id.
ActiveOf(st, activeId) ==
  IF HasGroup(st, activeId)
  THEN AsEntity(GroupOf(st, activeId), GroupOf(st, activeId).pieceIds)
  ELSE AsEntity(PieceOf(st, activeId), <<activeId>>)

HasOwner(st, pieceId) ==
  \/ \E i \in 1..Len(st.groups) : Includes(st.groups[i].pieceIds, pieceId)
  \/ HasPiece(st, pieceId)

\* The entity that contains a piece id: the first group listing it, else
\* the piece itself.
entityOfPiece(st, pieceId) ==
  IF \E i \in 1..Len(st.groups) : Includes(st.groups[i].pieceIds, pieceId)
  THEN LET g == st.groups[CHOOSE i \in 1..Len(st.groups) :
                    /\ Includes(st.groups[i].pieceIds, pieceId)
                    /\ \A j \in 1..(i - 1) :
                         ~Includes(st.groups[j].pieceIds, pieceId)]
       IN AsEntity(g, g.pieceIds)
  ELSE AsEntity(PieceOf(st, pieceId), <<pieceId>>)

\* Variant: only the neighbours of the entity's first piece are collected.
neighborPieceIdsOfFirst(st, active) ==
  LET activeSet == Range(active.pieceIds)
      first == active.pieceIds[1]
      all == IF HasPiece(st, first) THEN PieceOf(st, first).neighborIds
             ELSE <<>>
      outside(nid) == nid \notin activeSet
  IN Dedupe(SelectSeq(all, outside), {})

\* Variant: every piece outside the active entity is a candidate.
neighborPieceIdsOfAll(st, active) ==
  LET activeSet == Range(active.pieceIds)
      outside(nid) == nid \notin activeSet
  IN SelectSeq([i \in 1..Len(st.pieces) |-> st.pieces[i].id], outside)

\* Neighbour piece ids of the active entity that are not in it, in the
\* iteration order of the Set.
neighborPieceIds(st, active) ==
  LET activeSet == Range(active.pieceIds)
      perPiece(pid) ==
        IF HasPiece(st, pid) THEN PieceOf(st, pid).neighborIds ELSE <<>>
      all == Flatten([i \in 1..Len(active.pieceIds) |->
                        perPiece(active.pieceIds[i])])
      outside(nid) == nid \notin activeSet
  IN Dedupe(SelectSeq(all, outside), {})

\* Math.abs(((a - n + 180) % 360) - 180)
rotDiff(activeRot, neighborRot) ==
  Abs(JsRem(activeRot - neighborRot + 180, 360) - 180)

RotationGate(activeRot, neighborRot) ==
  ~(rotDiff(activeRot, neighborRot) > SNAP_ANGLE)

\* active.(x, y) plus the image-space offset (ox, oy) - active.centroid,
\* scaled and rotated by active.rotation.
Project(active, pt, scale) ==
  LET dx == (pt[1] - active.centroid[1]) * scale
      dy == (pt[2] - active.centroid[2]) * scale
      cos == CosMilli(active.rotation)
      sin == SinMilli(active.rotation)
  IN <<active.x + RoundDiv(dx * cos - dy * sin, 1000),
       active.y + RoundDiv(dx * sin + dy * cos, 1000)>>

\* Variant: the threshold is one unit too wide.
PositionGateWide(active, neighbor, scale) ==
  ~(distSq(Project(active, neighbor.centroid, scale),
           <<neighbor.x, neighbor.y>>)
      > (SNAP_DISTANCE + 1) * (SNAP_DISTANCE + 1))

PositionGate(active, neighbor, scale) ==
  ~(distSq(Project(active, neighbor.centroid, scale),
           <<neighbor.x, neighbor.y>>) > SNAP_DISTANCE * SNAP_DISTANCE)

\* Variant: the position gate is skipped.
QualifiesByRotation(st, active, neighborPieceId, scale) ==
  /\ HasOwner(st, neighborPieceId)
  /\ LET neighbor == entityOfPiece(st, neighborPieceId)
     IN /\ neighbor.entityId # active.entityId
        /\ RotationGate(active.rotation, neighbor.rotation)

\* A candidate piece id passes: it has an owner other than the active
\* entity, and that owner passes both gates.
Qualifies(st, active, neighborPieceId, scale) ==
  /\ HasOwner(st, neighborPieceId)
  /\ LET neighbor == entityOfPiece(st, neighborPieceId)
     IN /\ neighbor.entityId # active.entityId
        /\ RotationGate(active.rotation, neighbor.rotation)
        /\ PositionGate(active, neighbor, scale)

\* Variant: the new group is the only group left.
MergeStateOnlyNew(st, active, neighbor, scale, gid) ==
  LET mergedPieceIds == active.pieceIds \o neighbor.pieceIds
      mergedPolygons == [i \in 1..Len(mergedPieceIds) |->
                           PieceOf(st, mergedPieceIds[i]).polygon]
      mergedCentroid == groupCentroid(mergedPolygons)
      pos == Project(active, mergedCentroid, scale)
      newZ == st.nextZ
      newGroup == [id |-> gid,
                   pieceIds |-> mergedPieceIds,
                   polygons |-> mergedPolygons,
                   centroid |-> mergedCentroid,
                   x |-> pos[1],
                   y |-> pos[2],
                   rotation |-> active.rotation,
                   zIndex |-> newZ]
      isComplete == Len(mergedPieceIds) = Len(st.pieces)
  IN [st EXCEPT !.groups = <<newGroup>>,
                !.selectedId = newGroup.id,
                !.nextZ = newZ + 1,
                !.completed = isComplete]

\* Variant: the new group takes the rotation of the neighbor.
MergeStateNeighborRotation(st, active, neighbor, scale, gid) ==
  LET mergedPieceIds == active.pieceIds \o neighbor.pieceIds
      mergedPolygons == [i \in 1..Len(mergedPieceIds) |->
                           PieceOf(st, mergedPieceIds[i]).polygon]
      mergedCentroid == groupCentroid(mergedPolygons)
      pos == Project(active, mergedCentroid, scale)
      newGroup == [id |-> gid,
                   pieceIds |-> mergedPieceIds,
                   polygons |-> mergedPolygons,
                   centroid |-> mergedCentroid,
                   x |-> pos[1],
                   y |-> pos[2],
                   rotation |-> neighbor.rotation,
                   zIndex |-> st.nextZ]
      others(g) == g.id # active.entityId /\ g.id # neighbor.entityId
  IN [st EXCEPT !.groups = Append(SelectSeq(st.groups, others), newGroup),
                !.selectedId = newGroup.id,
                !.nextZ = st.nextZ + 1,
                !.completed = Len(mergedPieceIds) = Len(st.pieces)]

\* Variant: the new group is left at the active entity's own x and y.
MergeStateAtActive(st, active, neighbor, scale, gid) ==
  LET mergedPieceIds == active.pieceIds \o neighbor.pieceIds
      mergedPolygons == [i \in 1..Len(mergedPieceIds) |->
                           PieceOf(st, mergedPieceIds[i]).polygon]
      newGroup == [id |-> gid,
                   pieceIds |-> mergedPieceIds,
                   polygons |-> mergedPolygons,
                   centroid |-> groupCentroid(mergedPolygons),
                   x |-> active.x,
                   y |-> active.y,
                   rotation |-> active.rotation,
                   zIndex |-> st.nextZ]
      others(g) == g.id # active.entityId /\ g.id # neighbor.entityId
  IN [st EXCEPT !.groups = Append(SelectSeq(st.groups, others), newGroup),
                !.selectedId = newGroup.id,
                !.nextZ = st.nextZ + 1,
                !.completed = Len(mergedPieceIds) = Len(st.pieces)]

\* The state after merging active with neighbor under the new id gid.
MergeState(st, active, neighbor, scale, gid) ==
  LET mergedPieceIds == active.pieceIds \o neighbor.pieceIds
      mergedPolygons == [i \in 1..Len(mergedPieceIds) |->
                           PieceOf(st, mergedPieceIds[i]).polygon]
      mergedCentroid == groupCentroid(mergedPolygons)
      pos == Project(active, mergedCentroid, scale)
      newZ == st.nextZ
      newGroup == [id |-> gid,
                   pieceIds |-> mergedPieceIds,
                   polygons |-> mergedPolygons,
                   centroid |-> mergedCentroid,
                   x |-> pos[1],
                   y |-> pos[2],
                   rotation |-> active.rotation,
                   zIndex |-> newZ]
      others(g) == g.id # active.entityId /\ g.id # neighbor.entityId
      newGroups == Append(SelectSeq(st.groups, others), newGroup)
      isComplete == Len(mergedPieceIds) = Len(st.pieces)
  IN [st EXCEPT !.groups = newGroups,
                !.selectedId = newGroup.id,
                !.nextZ = newZ + 1,
                !.completed = isComplete]

NoSnap == [found |-> FALSE, state |-> initialState, merges |-> <<>>]

\* performSnap(activeId, state, scale).  ids are the values the successive
\* Date.now()/Math.random() group ids take, n counts the merges done so far
\* in this call.  The result is NoSnap for null; merges lists, for every
\* merge of the chain, the two entities as the code resolved them.
RECURSIVE performSnapFrom(_, _, _, _, _)
performSnapFrom(activeId, st, scale, ids, n) ==
  IF ~HasActive(st, activeId) THEN NoSnap
  ELSE
    LET active == ActiveOf(st, activeId)
        cands == neighborPieceIds(st, active)
        hits == {i \in 1..Len(cands) : Qualifies(st, active, cands[i], scale)}
    IN IF hits = {} THEN NoSnap
       ELSE
         LET first == CHOOSE i \in hits : \A j \in hits : i <= j
             neighbor == entityOfPiece(st, cands[first])
             gid == ids[(n % Len(ids)) + 1]
             newState == MergeState(st, active, neighbor, scale, gid)
             entry == [active |-> active, neighbor |-> neighbor, group |-> gid]
             chained == performSnapFrom(gid, newState, scale, ids, n + 1)
         IN IF chained.found
            THEN [chained EXCEPT !.merges = <<entry>> \o @]
            ELSE [found |-> TRUE, state |-> newState, merges |-> <<entry>>]

\* Variant: the state after the first merge is returned without trying the
\* new group.
performSnapOnce(activeId, st, scale, ids) ==
  IF ~HasActive(st, activeId) THEN NoSnap
  ELSE
    LET active == ActiveOf(st, activeId)
        cands == neighborPieceIds(st, active)
        hits == {i \in 1..Len(cands) : Qualifies(st, active, cands[i], scale)}
    IN IF hits = {} THEN NoSnap
       ELSE
         LET first == CHOOSE i \in hits : \A j \in hits : i <= j
             neighbor == entityOfPiece(st, cands[first])
             newState == MergeState(st, active, neighbor, scale, ids[1])
             entry == [active |-> active, neighbor |-> neighbor,
                       group |-> ids[1]]
         IN [found |-> TRUE, state |-> newState, merges |-> <<entry>>]

performSnap(activeId, st, scale, ids) ==
  performSnapFrom(activeId, st, scale, ids, 0)

(***************************************************************************)
(* reducer                                                                 *)
(***************************************************************************)
\* Variant: the groups and the selection of the previous game are kept.
reduceInitKeepGroups(st, action) ==
  [st EXCEPT !.pieces = action.pieces,
             !.imageLoaded = TRUE,
             !.completed = FALSE,
             !.nextZ = Len(action.pieces) + 1]

\* Variant: the counter starts at the number of pieces.
reduceInitAtLength(st, action) ==
  [initialState EXCEPT !.pieces = action.pieces,
                       !.imageLoaded = TRUE,
                       !.nextZ = Len(action.pieces)]

\* case 'INIT'
reduceInit(st, action) ==
  [initialState EXCEPT !.pieces = action.pieces,
                       !.imageLoaded = TRUE,
                       !.nextZ = Len(action.pieces) + 1]

\* Variant: the selected entity takes the counter's value and the counter
\* is left as it was.
reduceSelectSameZ(st, action) ==
  IF action.id = Null THEN [st EXCEPT !.selectedId = Null]
  ELSE [st EXCEPT
          !.selectedId = action.id,
          !.pieces = [i \in 1..Len(st.pieces) |->
              IF st.pieces[i].id = action.id
              THEN [st.pieces[i] EXCEPT !.zIndex = st.nextZ]
              ELSE st.pieces[i]],
          !.groups = [i \in 1..Len(st.groups) |->
              IF st.groups[i].id = action.id
              THEN [st.groups[i] EXCEPT !.zIndex = st.nextZ]
              ELSE st.groups[i]]]

\* Variant: the selected piece is also moved to the head of the piece list.
reduceSelectToHead(st, action) ==
  IF action.id = Null THEN [st EXCEPT !.selectedId = Null]
  ELSE LET z == st.nextZ
           named(p) == p.id = action.id
           other(p) == p.id # action.id
           raised == [i \in 1..Len(st.pieces) |->
                        IF st.pieces[i].id = action.id
                        THEN [st.pieces[i] EXCEPT !.zIndex = z]
                        ELSE st.pieces[i]]
       IN [st EXCEPT
             !.selectedId = action.id,
             !.nextZ = z + 1,
             !.pieces = SelectSeq(raised, named) \o SelectSeq(raised, other),
             !.groups = [i \in 1..Len(st.groups) |->
                 IF st.groups[i].id = action.id
                 THEN [st.groups[i] EXCEPT !.zIndex = z]
                 ELSE st.groups[i]]]

\* case 'SELECT'
reduceSelect(st, action) ==
  IF action.id = Null THEN [st EXCEPT !.selectedId = Null]
  ELSE LET z == st.nextZ
       IN [st EXCEPT
             !.selectedId = action.id,
             !.nextZ = z + 1,
             !.pieces = [i \in 1..Len(st.pieces) |->
                 IF st.pieces[i].id = action.id
                 THEN [st.pieces[i] EXCEPT !.zIndex = z]
                 ELSE st.pieces[i]],
             !.groups = [i \in 1..Len(st.groups) |->
                 IF st.groups[i].id = action.id
                 THEN [st.groups[i] EXCEPT !.zIndex = z]
                 ELSE st.groups[i]]]

\* Variant: the moved entity is kept on the board.
reduceMoveClamped(st, action) ==
  [st EXCEPT
     !.pieces = [i \in 1..Len(st.pieces) |->
         IF st.pieces[i].id = action.id
         THEN [st.pieces[i] EXCEPT
                 !.x = Max(0, Min(BoardWidth, @ + action.dx)),
                 !.y = Max(0, Min(BoardHeight, @ + action.dy))]
         ELSE st.pieces[i]],
     !.groups = [i \in 1..Len(st.groups) |->
         IF st.groups[i].id = action.id
         THEN [st.groups[i] EXCEPT
                 !.x = Max(0, Min(BoardWidth, @ + action.dx)),
                 !.y = Max(0, Min(BoardHeight, @ + action.dy))]
         ELSE st.groups[i]]]

\* Variant: the id test is missing, every piece and group is moved.
reduceMoveAll(st, action) ==
  [st EXCEPT
     !.pieces = [i \in 1..Len(st.pieces) |->
         [st.pieces[i] EXCEPT !.x = @ + action.dx, !.y = @ + action.dy]],
     !.groups = [i \in 1..Len(st.groups) |->
         [st.groups[i] EXCEPT !.x = @ + action.dx, !.y = @ + action.dy]]]

\* case 'MOVE'
reduceMove(st, action) ==
  [st EXCEPT
     !.pieces = [i \in 1..Len(st.pieces) |->
         IF st.pieces[i].id = action.id
         THEN [st.pieces[i] EXCEPT !.x = @ + action.dx,
                                   !.y = @ + action.dy]
         ELSE st.pieces[i]],
     !.groups = [i \in 1..Len(st.groups) |->
         IF st.groups[i].id = action.id
         THEN [st.groups[i] EXCEPT !.x = @ + action.dx,
                                   !.y = @ + action.dy]
         ELSE st.groups[i]]]

\* case 'ROTATE'
reduceRotate(st, action) ==
  [st EXCEPT
     !.pieces = [i \in 1..Len(st.pieces) |->
         IF st.pieces[i].id = action.id
         THEN [st.pieces[i] EXCEPT !.rotation = action.angle]
         ELSE st.pieces[i]],
     !.groups = [i \in 1..Len(st.groups) |->
         IF st.groups[i].id = action.id
         THEN [st.groups[i] EXCEPT !.rotation = action.angle]
         ELSE st.groups[i]]]

\* Variant: the selection of before the call is kept.
reduceTrySnapKeepSelection(st, action) ==
  LET result == performSnap(action.id, st, action.scale, action.ids)
  IN IF result.found
     THEN [result.state EXCEPT !.selectedId = st.selectedId]
     ELSE st

\* case 'TRY_SNAP'
reduceTrySnap(st, action) ==
  LET result == performSnap(action.id, st, action.scale, action.ids)
  IN IF result.found THEN result.state ELSE st

reducer(st, action) ==
  CASE action.type = "INIT" -> reduceInit(st, action)
    [] action.type = "SELECT" -> reduceSelect(st, action)
    [] action.type = "MOVE" -> reduceMove(st, action)
    [] action.type = "ROTATE" -> reduceRotate(st, action)
    [] action.type = "TRY_SNAP" -> reduceTrySnap(st, action)
    [] OTHER -> st

(***************************************************************************)
(* The store as a state machine.                                           *)
(*                                                                         *)
(* now is the millisecond Date.now() returns, counted from the last        *)
(* initialize (no group id survives an initialize, so only the order of    *)
(* the readings matters).  trySnap calls that create a group come from     *)
(* separate user gestures and read increasing values; all merges of one    *)
(* call read the same value.                                               *)
(*                                                                         *)
(* last is a history variable: the operation that produced the current     *)
(* state, its id argument, for trySnap the merges it performed, and        *)
(* whether the operation changed the store.                                *)
(***************************************************************************)
state ==
  [pieces |-> pieces, groups |-> groups, selectedId |-> selectedId,
   imageLoaded |-> imageLoaded, completed |-> completed, nextZ |-> nextZ]

SetState(st) ==
  /\ pieces' = st.pieces
  /\ groups' = st.groups
  /\ selectedId' = st.selectedId
  /\ imageLoaded' = st.imageLoaded
  /\ completed' = st.completed
  /\ nextZ' = st.nextZ

\* `group-${Date.now()}-${Math.random().toString(36).slice(2, 6)}` for the
\* millisecond t and the r-th of the random suffixes.
GroupIdTable ==
  << <<"group-1-a", "group-1-b">>, <<"group-2-a", "group-2-b">>,
     <<"group-3-a", "group-3-b">>, <<"group-4-a", "group-4-b">>,
     <<"group-5-a", "group-5-b">>, <<"group-6-a", "group-6-b">> >>

GroupId(t, r) == GroupIdTable[t][r]

Init ==
  /\ pieces = initialState.pieces
  /\ groups = initialState.groups
  /\ selectedId = initialState.selectedId
  /\ imageLoaded = initialState.imageLoaded
  /\ completed = initialState.completed
  /\ nextZ = initialState.nextZ
  /\ now = 1
  /\ last = [op |-> "none", id |-> Null, merges |-> <<>>, effect |-> TRUE]
  /\ dragRef = NoDrag
  /\ pinchRef = NoPinch
  /\ paused = FALSE
  /\ touches = 0

\* dispatch(action), with the history record of the call.
Dispatch(action, op, id, merges) ==
  \E st \in {reducer(state, action)} :
     /\ SetState(st)
     /\ last' = [op |-> op, id |-> id, merges |-> merges,
                 effect |-> st # state]

initialize(placement) ==
  /\ Dispatch([type |-> "INIT", pieces |-> generatePuzzlePieces(placement)],
              "initialize", Null, <<>>)
  /\ now' = 1
  /\ UNCHANGED boardVars

select(id) ==
  /\ Dispatch([type |-> "SELECT", id |-> id], "select", id, <<>>)
  /\ now' = now
  /\ UNCHANGED boardVars

movePiece(id, dx, dy) ==
  /\ Dispatch([type |-> "MOVE", id |-> id, dx |-> dx, dy |-> dy],
              "move", id, <<>>)
  /\ now' = now
  /\ UNCHANGED boardVars

rotatePiece(id, angle) ==
  /\ Dispatch([type |-> "ROTATE", id |-> id, angle |-> angle],
              "rotate", id, <<>>)
  /\ now' = now
  /\ UNCHANGED boardVars

\* The TRY_SNAP action trySnap(id) dispatches; rnd are the random suffixes
\* the merges of this call draw.
SnapAction(id, rnd) ==
  [type |-> "TRY_SNAP", id |-> id, scale |-> Scale,
   ids |-> [k \in 1..Len(rnd) |-> GroupId(now, rnd[k])]]

trySnap(id, rnd) ==
  \E result \in {performSnap(id, state, Scale, SnapAction(id, rnd).ids)} :
     /\ Dispatch(SnapAction(id, rnd), "snap", id, result.merges)
     /\ now' = IF result.found THEN now + 1 ELSE now
     /\ UNCHANGED boardVars

(***************************************************************************)
(* PuzzleBoard: the rotate handle.                                         *)
(***************************************************************************)
\* Variant: the angle is passed on as the pointer gave it.
newRotationRaw(raw) == raw

\* handlePointerMove, rotate mode: startRotation + deltaAngle normalized to
\* 0-360 before store.rotatePiece.
newRotation(raw) == JsRem(JsRem(raw, 360) + 360, 360)

\* Math.round(rotation / 90) * 90
nearest90(rotation) == RoundDiv(rotation, 90) * 90

\* Variant: an entity exactly 10 degrees off a quarter turn is left there.
snapRotationBelowTen(st, id) ==
  IF /\ HasActive(st, id)
     /\ Abs(ActiveOf(st, id).rotation - nearest90(ActiveOf(st, id).rotation))
          < 10
  THEN reducer(st, [type |-> "ROTATE", id |-> id,
                    angle |-> nearest90(ActiveOf(st, id).rotation) % 360])
  ELSE st

\* The store after the rotation snap of handlePointerUp: an entity within 10
\* degrees of a quarter turn is put on it.
snapRotation(st, id) ==
  IF /\ HasActive(st, id)
     /\ Abs(ActiveOf(st, id).rotation - nearest90(ActiveOf(st, id).rotation))
          <= 10
  THEN reducer(st, [type |-> "ROTATE", id |-> id,
                    angle |-> nearest90(ActiveOf(st, id).rotation) % 360])
  ELSE st

\* Variant: store.trySnap(id) is dispatched before the rotation snap.
handlePointerUpSnapLast(id, rnd) ==
  \E result \in {performSnap(id, state, Scale, SnapAction(id, rnd).ids)} :
  \E merged \in {reducer(state, SnapAction(id, rnd))} :
  \E st \in {snapRotation(merged, id)} :
     /\ SetState(st)
     /\ last' = [op |-> "release", id |-> id, merges |-> result.merges,
                 effect |-> st # state,
                 snapped |-> snapRotation(state, id) # state]
     /\ now' = IF result.found THEN now + 1 ELSE now
     /\ UNCHANGED boardVars

\* handlePointerUp in rotate mode: the rotation snap, then store.trySnap(id).
\* last.snapped tells whether the rotation snap changed the store.
handlePointerUp(id, rnd) ==
  \E snapped \in {snapRotation(state, id)} :
  \E result \in {performSnap(id, snapped, Scale, SnapAction(id, rnd).ids)} :
  \E st \in {reducer(snapped, SnapAction(id, rnd))} :
     /\ SetState(st)
     /\ last' = [op |-> "release", id |-> id, merges |-> result.merges,
                 effect |-> st # state, snapped |-> snapped # state]
     /\ now' = IF result.found THEN now + 1 ELSE now
     /\ UNCHANGED boardVars

(***************************************************************************)
(* Bounds of the exploration and the sets the inputs are drawn from.       *)
(***************************************************************************)
\* A trySnap is explored when it leaves the z-order counter at most MaxZ:
\* every merge takes one value, so a board of NumPieces pieces sees up to
\* MaxZ - NumPieces merges between two calls of initialize.
MaxZ == 9

\* The random suffixes successive merges of one trySnap call draw (indices
\* into a row of GroupIdTable); a call with more merges draws them again.
IdDraws == {<<1, 1>>, <<1, 2>>}

\* An id that names nothing.
BogusId == "nope"

\* A piece id a caller may still hold after the piece was absorbed.
StaleProbe == "piece-0"

\* The piece the user drags and turns by hand; groups are dragged too.
HandPiece == "piece-3"

\* Board x of an entity minus the x of its image centroid on a solved board
\* anchored at the origin.  Entities are dragged between these offsets.
Offsets == {0, 21}

\* Angles rotate is called with.
\* startRotation + deltaAngle of a rotate drag, before it is normalized.
Rotations == {-360, 376, -5}

MoveDeltas == {b - a : a \in Offsets, b \in Offsets} \ {0}

HomeX(e) == e.centroid[1] * Scale

SolvedPlacement ==
  [n \in 1..NumPieces |->
     [x |-> ((n - 1) % Cols) * CellW * Scale + (CellW * Scale) \div 2,
      y |-> ((n - 1) \div Cols) * CellH * Scale + (CellH * Scale) \div 2,
      rotation |-> 0]]

\* A draw of the generator: the solved board with piece n shifted right by
\* dxs[n] and turned by rots[n] (a multiple of 15).
Placed(dxs, rots) ==
  [n \in 1..NumPieces |->
     [SolvedPlacement[n] EXCEPT !.x = @ + dxs[n], !.rotation = rots[n]]]

\* A draw of the generator: the solved board turned by deg about the image
\* origin and shifted right by shift, every piece turned by deg.  The
\* quarter turn below is shifted so that the last piece lies at its solved x.
Turned(deg, shift) ==
  [n \in 1..NumPieces |->
     LET cx == SolvedPlacement[n].x
         cy == SolvedPlacement[n].y
     IN [x |-> shift + RoundDiv(cx * CosMilli(deg) - cy * SinMilli(deg), 1000),
         y |-> RoundDiv(cx * SinMilli(deg) + cy * CosMilli(deg), 1000),
         rotation |-> deg]]

Placements ==
  {Placed(<<0, 0, 0, 0>>, <<0, 0, 0, 0>>),
   Turned(90, SolvedPlacement[NumPieces].x + SolvedPlacement[NumPieces].y),
   Placed(<<0, 20, 21, 0>>, <<0, 0, 0, 0>>),
   Placed(<<0, 0, 21, 21>>, <<0, 0, 0, 0>>),
   Placed(<<0, 0, 0, 0>>, <<0, 15, 345, 0>>)}

\* getEntities: the ids of the ungrouped pieces and of the groups.
EntityIds ==
  {pieces[i].id : i \in {j \in 1..Len(pieces) :
       \A k \in 1..Len(groups) : ~Includes(groups[k].pieceIds, pieces[j].id)}}
  \cup {groups[i].id : i \in 1..Len(groups)}

GroupIdsNow == {groups[i].id : i \in 1..Len(groups)}

MoverIds == ({HandPiece} \cap EntityIds) \cup GroupIdsNow \cup {BogusId}

SnapIds == EntityIds \cup {StaleProbe, BogusId}

SelectIds == {HandPiece, BogusId, Null}

RotateIds == ({HandPiece} \cap EntityIds) \cup {BogusId}

ReleaseIds == {HandPiece} \cap EntityIds

\* Every entity named id stays among the offsets after the move.
InRegion(id, dx) ==
  /\ \A i \in 1..Len(pieces) :
       pieces[i].id = id => (pieces[i].x + dx - HomeX(pieces[i])) \in Offsets
  /\ \A i \in 1..Len(groups) :
       groups[i].id = id => (groups[i].x + dx - HomeX(groups[i])) \in Offsets

WithinBounds == nextZ' <= MaxZ

\* select is explored while no z-order value has been handed out since the
\* store was created or initialized.
FreshCounter == nextZ = Len(pieces) + 1

\* A call that left the store as it was is not followed further: the store
\* after it is the store before it, and every continuation is explored from
\* there.
Followed == last.effect

Next ==
  \/ \E pl \in Placements : Followed /\ initialize(pl)
  \/ \E id \in SelectIds : Followed /\ FreshCounter /\ select(id)
  \/ \E id \in MoverIds, dx \in MoveDeltas :
       Followed /\ InRegion(id, dx) /\ movePiece(id, dx, 0)
  \/ \E id \in RotateIds, raw \in Rotations :
       Followed /\ rotatePiece(id, newRotation(raw))
  \/ \E id \in ReleaseIds, rnd \in IdDraws :
       Followed /\ handlePointerUp(id, rnd) /\ WithinBounds
  \/ \E id \in SnapIds, rnd \in IdDraws :
       Followed /\ trySnap(id, rnd) /\ WithinBounds

Spec == Init /\ [][Next]_vars

(***************************************************************************)
(* The store under selection: every entity of the board, single piece or   *)
(* group, is selected at any value of the z-order counter, between merges  *)
(* of pieces and of groups.                                                *)
(***************************************************************************)
StackPlacements == {Placed(<<0, 0, 21, 21>>, <<0, 0, 0, 0>>)}

StackIdDraws == {<<1, 1>>}

StackSelectIds == EntityIds \cup {Null}

StackNext ==
  \/ \E pl \in StackPlacements : Followed /\ initialize(pl)
  \/ \E id \in StackSelectIds : Followed /\ select(id) /\ WithinBounds
  \/ \E id \in GroupIdsNow, dx \in MoveDeltas :
       Followed /\ InRegion(id, dx) /\ movePiece(id, dx, 0)
  \/ \E id \in EntityIds, rnd \in StackIdDraws :
       Followed /\ trySnap(id, rnd) /\ WithinBounds

StackSpec == Init /\ [][StackNext]_vars

(***************************************************************************)
(* The drag gesture: pointer moves of any size on every entity of the      *)
(* board, the deltas kept in the history.                                  *)
(***************************************************************************)
\* handlePointerMove in drag mode: store.movePiece(id, dx, dy) with the
\* distance the pointer went since the last event.
handlePointerMove(id, dx, dy) ==
  \E st \in {reducer(state, [type |-> "MOVE", id |-> id,
                              dx |-> dx, dy |-> dy])} :
     /\ SetState(st)
     /\ last' = [op |-> "move", id |-> id, merges |-> <<>>,
                 effect |-> st # state, dx |-> dx, dy |-> dy]
     /\ now' = now
     /\ UNCHANGED boardVars

\* Pointer distances: a few units, and further than the board is wide.
DragDeltasX == {0, 7, 900}

DragDeltasY == {0, -900}

\* One pointer move is explored between two other calls.
NotDragging == last.op # "move"

\* Draws of the generator: the lower row out of reach of the upper, and the
\* two diagonals each in place with the other diagonal out of reach.
DragPlacements ==
  StackPlacements \cup {Placed(<<0, 21, 21, 0>>, <<0, 0, 0, 0>>)}

DragNext ==
  \/ \E pl \in DragPlacements : last.op = "none" /\ initialize(pl)
  \/ \E id \in EntityIds, dx \in DragDeltasX, dy \in DragDeltasY :
       Followed /\ NotDragging /\ handlePointerMove(id, dx, dy)
  \/ \E id \in EntityIds, rnd \in StackIdDraws :
       Followed /\ trySnap(id, rnd)

DragSpec == Init /\ [][DragNext]_vars

(***************************************************************************)
(* The rotate gesture: the handle turned to angles on both sides of the    *)
(* 10 degree limit of the rotation snap, then released.                    *)
(***************************************************************************)
\* Pointer angles of the handle when it is released.
ReleaseAngles == {10, 11, 79, 80, 100, 101, 170, 190, 259, 281, 350, 360}

\* A gesture starts on a fresh board or after a release that merged.
GestureStarts ==
  \/ last.op = "initialize"
  \/ last.op = "release" /\ last.merges # <<>>

ReleaseNext ==
  \/ \E pl \in StackPlacements \cup {SolvedPlacement} :
       last.op = "none" /\ initialize(pl)
  \/ \E id \in EntityIds, raw \in ReleaseAngles :
       GestureStarts /\ rotatePiece(id, newRotation(raw))
  \/ \E id \in {last.id} \cap EntityIds, rnd \in StackIdDraws :
       last.op = "rotate" /\ handlePointerUp(id, rnd)

ReleaseSpec == Init /\ [][ReleaseNext]_vars

(***************************************************************************)
(* PuzzleBoard and PuzzlePiece: the gesture handlers.  A finger that goes  *)
(* down, moves or lifts raises the pointer event and then the touch event  *)
(* with the fingers then on the screen; a mouse is the case of one finger. *)
(* A handler works on w: the store, the two refs, the clock and the ids    *)
(* store.trySnap was called with.                                          *)
(***************************************************************************)
Work ==
  [st |-> state, dragRef |-> dragRef, pinchRef |-> pinchRef, now |-> now,
   snaps |-> <<>>]

\* getEntities().find((en) => en.id === id) finds an entity.
IsEntity(st, id) ==
  \/ \E i \in 1..Len(st.groups) : st.groups[i].id = id
  \/ \E i \in 1..Len(st.pieces) :
       /\ st.pieces[i].id = id
       /\ \A k \in 1..Len(st.groups) : ~Includes(st.groups[k].pieceIds, id)

\* store.trySnap(id) at the clock of w.
withTrySnap(w, id, rnd) ==
  LET ids == [k \in 1..Len(rnd) |-> GroupId(w.now, rnd[k])]
      action == [type |-> "TRY_SNAP", id |-> id, scale |-> Scale, ids |-> ids]
  IN [w EXCEPT
        !.st = reducer(w.st, action),
        !.now = IF performSnap(id, w.st, Scale, ids).found THEN @ + 1 ELSE @,
        !.snaps = Append(@, id)]

handleDragStart(w, id) ==
  IF paused THEN w
  ELSE [w EXCEPT !.dragRef = [id |-> id, mode |-> "drag"]]

handleRotateStart(w, id) ==
  IF paused THEN w
  ELSE IF ~IsEntity(w.st, id) THEN w
  ELSE [w EXCEPT !.dragRef = [id |-> id, mode |-> "rotate"]]

\* PuzzlePiece, handlePointerDown: onSelect(id), then onDragStart(id, e).
piecePointerDown(w, id) ==
  handleDragStart(
    [w EXCEPT !.st = reducer(@, [type |-> "SELECT", id |-> id])], id)

\* Pointer down on the empty board: store.select(null).
handleBoardClick(w) ==
  [w EXCEPT !.st = reducer(@, [type |-> "SELECT", id |-> Null])]

\* handlePointerMove with the gesture in dragRef: dx is the distance the
\* pointer went, raw is startRotation + deltaAngle.
pointerMoved(w, dx, raw) ==
  IF w.pinchRef # NoPinch THEN w
  ELSE IF w.dragRef = NoDrag THEN w
  ELSE IF w.dragRef.mode = "drag"
  THEN [w EXCEPT !.st = reducer(@, [type |-> "MOVE", id |-> w.dragRef.id,
                                     dx |-> dx, dy |-> 0])]
  ELSE [w EXCEPT !.st = reducer(@, [type |-> "ROTATE", id |-> w.dragRef.id,
                                     angle |-> newRotation(raw)])]

\* handlePointerUp with the gesture in dragRef.
pointerReleased(w, rnd) ==
  IF w.dragRef = NoDrag THEN w
  ELSE [withTrySnap(
          [w EXCEPT !.st = IF w.dragRef.mode = "rotate"
                           THEN snapRotation(@, w.dragRef.id) ELSE @],
          w.dragRef.id, rnd)
        EXCEPT !.dragRef = NoDrag]

\* handleTouchStart with n fingers on the screen.
handleTouchStart(w, n) ==
  IF n # 2 THEN w
  ELSE IF w.st.selectedId # Null /\ IsEntity(w.st, w.st.selectedId)
  THEN [w EXCEPT !.dragRef = NoDrag,
                 !.pinchRef = [mode |-> "rotate",
                               targetId |-> w.st.selectedId]]
  ELSE [w EXCEPT !.dragRef = NoDrag,
                 !.pinchRef = [mode |-> "zoom", targetId |-> Null]]

\* handleTouchMove with n fingers on the screen; raw is initialRotation +
\* deltaAngle.  The zoom mode changes the view only.
handleTouchMove(w, n, raw) ==
  IF /\ n = 2
     /\ w.pinchRef # NoPinch
     /\ w.pinchRef.mode = "rotate"
     /\ w.pinchRef.targetId # Null
  THEN [w EXCEPT !.st = reducer(@, [type |-> "ROTATE",
                                     id |-> w.pinchRef.targetId,
                                     angle |-> newRotation(raw)])]
  ELSE w

\* handleTouchEnd (touchend and touchcancel) with n fingers left.
handleTouchEnd(w, n, rnd) ==
  IF w.pinchRef # NoPinch /\ n < 2
  THEN [(IF w.pinchRef.mode = "rotate" /\ w.pinchRef.targetId # Null
         THEN withTrySnap(
                [w EXCEPT !.st = IF IsEntity(w.st, w.pinchRef.targetId)
                                 THEN snapRotation(@, w.pinchRef.targetId)
                                 ELSE @],
                w.pinchRef.targetId, rnd)
         ELSE w)
        EXCEPT !.pinchRef = NoPinch]
  ELSE w

GestureOps == {"down", "fingermove", "up"}

\* History of the fingers now on the screen: the entities a drag, a handle
\* rotation or a two-finger rotation started on since the first of them went
\* down, the ids store.trySnap was called with since, and whether one of
\* the fingers was lifted.
Contact ==
  IF touches = 0 \/ last.op \notin GestureOps
  THEN [started |-> {}, issued |-> <<>>, lifted |-> FALSE]
  ELSE [started |-> last.started, issued |-> last.issued,
        lifted |-> last.lifted]

StartedBy(w) ==
  (IF w.dragRef # NoDrag /\ w.dragRef # dragRef
   THEN {w.dragRef.id} ELSE {})
  \cup (IF w.pinchRef.mode = "rotate" /\ w.pinchRef # pinchRef
        THEN {w.pinchRef.targetId} ELSE {})

\* The event leaves w behind, with n fingers on the screen.
Leave(w, op, id, n) ==
  /\ SetState(w.st)
  /\ dragRef' = w.dragRef
  /\ pinchRef' = w.pinchRef
  /\ touches' = n
  /\ paused' = paused
  /\ now' = w.now
  /\ last' = [op |-> op, id |-> id, merges |-> <<>>,
              effect |-> w.st # state, snaps |-> w.snaps,
              started |-> Contact.started \cup StartedBy(w),
              issued |-> Contact.issued \o w.snaps,
              lifted |-> Contact.lifted \/ op = "up"]

\* A finger goes down on the piece or group id.
pieceDown(id) ==
  \E w \in {handleTouchStart(piecePointerDown(Work, id), touches + 1)} :
     Leave(w, "down", id, touches + 1)

\* A finger goes down on the rotate handle of the selected entity.
handleDown(id) ==
  \E w \in {handleTouchStart(handleRotateStart(Work, id), touches + 1)} :
     Leave(w, "down", id, touches + 1)

\* A finger goes down on the empty board.
boardDown ==
  \E w \in {handleTouchStart(handleBoardClick(Work), touches + 1)} :
     Leave(w, "down", Null, touches + 1)

fingerMove(dx, raw) ==
  \E w \in {handleTouchMove(pointerMoved(Work, dx, raw), touches, raw)} :
     Leave(w, "fingermove", Null, touches)

fingerUp(rnd) ==
  \E w \in {handleTouchEnd(pointerReleased(Work, rnd), touches - 1, rnd)} :
     Leave(w, "up", Null, touches - 1)

\* The pause button: setPaused((p) => !p).
togglePause ==
  /\ paused' = ~paused
  /\ last' = [op |-> "pause", id |-> Null, merges |-> <<>>, effect |-> TRUE]
  /\ UNCHANGED <<storeVars, now, dragRef, pinchRef, touches>>

\* Fingers on the screen at once.
MaxTouches == 3

\* The lower row lies one snap distance to the right of its place.
GesturePlacements == {Placed(<<0, 0, 21, 21>>, <<0, 0, 0, 0>>)}

\* A pointer move brings a piece of the lower row home.
GestureDeltas == {-21}

\* Angles a rotation gesture turns to.
GestureAngles == {90}

\* The entities a finger goes down on: the piece dragged by hand and the
\* groups.
GestureIds == ({HandPiece} \cap EntityIds) \cup GroupIdsNow

\* One move is explored between two other events.
NotMoving == last.op # "fingermove"

\* The first finger goes down on a fresh board, after the pause button, or
\* after a release that changed the store; further fingers follow until
\* one is lifted.
FingerMayGoDown ==
  /\ touches < MaxTouches
  /\ \/ touches > 0 /\ ~Contact.lifted
     \/ touches = 0 /\ last.op \in {"initialize", "pause"}
     \/ touches = 0 /\ last.op = "up" /\ last.effect

GestureNext ==
  \/ \E pl \in GesturePlacements : last.op = "none" /\ initialize(pl)
  \/ \E id \in GestureIds :
       FingerMayGoDown /\ pieceDown(id) /\ WithinBounds
  \/ \E id \in {selectedId} \cap EntityIds :
       FingerMayGoDown /\ handleDown(id)
  \/ imageLoaded /\ FingerMayGoDown /\ boardDown
  \/ \E dx \in GestureDeltas, raw \in GestureAngles :
       touches > 0 /\ NotMoving /\ fingerMove(dx, raw)
  \/ \E rnd \in StackIdDraws : touches > 0 /\ fingerUp(rnd)
  \/ last.op = "initialize" /\ togglePause

GestureSpec == Init /\ [][GestureNext]_vars

(***************************************************************************)
(* Organic generator: the neighbor map and the piece list.  The Delaunay   *)
(* triangulation and the Voronoi cells come from d3-delaunay; here they    *)
(* are inputs: yields is the set of pairs <<i, j>> with j among            *)
(* delaunay.neighbors(i), cells the points voronoi.cellPolygon finds a     *)
(* cell for.                                                               *)
(***************************************************************************)
\* What stands for a point with a coordinate that is NaN or infinite.
NotFinite == <<>>

\* The point (a / d, b / d) in whole units; a division by zero gives a
\* coordinate that is not a finite number.
DividePoint(a, b, d) ==
  IF d = 0 THEN NotFinite
  ELSE IF d > 0 THEN <<RoundDiv(a, d), RoundDiv(b, d)>>
  ELSE <<RoundDiv(-a, -d), RoundDiv(-b, -d)>>

\* Variant: without the fallback for an area of zero.
centroidNoFallback(polygon) ==
  LET n == Len(polygon)
      nxt(i) == polygon[(i % n) + 1]
      cross(i) == polygon[i][1] * nxt(i)[2] - nxt(i)[1] * polygon[i][2]
      area2 == SeqSum([i \in 1..n |-> cross(i)])
      cx == SeqSum([i \in 1..n |-> (polygon[i][1] + nxt(i)[1]) * cross(i)])
      cy == SeqSum([i \in 1..n |-> (polygon[i][2] + nxt(i)[2]) * cross(i)])
  IN DividePoint(cx, cy, 3 * area2)

\* centroid(polygon); area2 is twice the signed area, and with whole
\* coordinates Math.abs(area) < 1e-10 means area2 = 0.
centroid(polygon) ==
  LET n == Len(polygon)
      nxt(i) == polygon[(i % n) + 1]
      cross(i) == polygon[i][1] * nxt(i)[2] - nxt(i)[1] * polygon[i][2]
      area2 == SeqSum([i \in 1..n |-> cross(i)])
      cx == SeqSum([i \in 1..n |-> (polygon[i][1] + nxt(i)[1]) * cross(i)])
      cy == SeqSum([i \in 1..n |-> (polygon[i][2] + nxt(i)[2]) * cross(i)])
  IN IF area2 = 0
     THEN DividePoint(SeqSum([i \in 1..n |-> polygon[i][1]]),
                      SeqSum([i \in 1..n |-> polygon[i][2]]), n)
     ELSE DividePoint(cx, cy, 3 * area2)

\* The cell of point i without its closing duplicate: the cells are squares
\* in a row.
CellPolygon(i) ==
  <<<<30 * i, 0>>, <<30 * i + 30, 0>>, <<30 * i + 30, 30>>, <<30 * i, 30>>>>

\* Step 4: neighbors after every pair <<i, j>> was entered, i to j's set and
\* j to i's set, each set in insertion order.
RECURSIVE AddNeighbors(_, _)
AddNeighbors(neighbors, pairs) ==
  IF pairs = <<>> THEN neighbors
  ELSE LET i == Head(pairs)[1]
           j == Head(pairs)[2]
           add(set, e) == IF Includes(set, e) THEN set ELSE Append(set, e)
           withJ == [neighbors EXCEPT ![i] = add(@, j)]
       IN AddNeighbors([withJ EXCEPT ![j] = add(@, i)], Tail(pairs))

\* The pairs in the order of the two loops of step 4.
PairsInOrder(count, yields) ==
  LET yielded(pair) == pair \in yields
  IN Flatten([i \in 1..count |->
                SelectSeq([j \in 1..count |-> <<i - 1, j - 1>>], yielded)])

\* generatePuzzlePieces of the organic generator for count points.
generateOrganic(count, yields, cells, draw) ==
  LET neighbors == AddNeighbors([i \in 0..(count - 1) |-> <<>>],
                                PairsInOrder(count, yields))
      hasCell(i) == i \in cells
      kept == SelectSeq([k \in 1..count |-> k - 1], hasCell)
  IN [m \in 1..Len(kept) |->
        [id |-> PieceId(kept[m]),
         polygon |-> CellPolygon(kept[m]),
         centroid |-> centroid(CellPolygon(kept[m])),
         x |-> draw[kept[m] + 1].x,
         y |-> draw[kept[m] + 1].y,
         rotation |-> draw[kept[m] + 1].rotation,
         neighborIds |-> [k \in 1..Len(neighbors[kept[m]]) |->
                            PieceId(neighbors[kept[m]][k])],
         zIndex |-> kept[m]]]

(***************************************************************************)
(* initialize for every requested count and image shape: the store after   *)
(* the generator ran on the caller's arguments.                            *)
(***************************************************************************)
MaxCount == 8

MaxPoints == 3

\* What d3-delaunay may answer for count points: a point without a cell is
\* a coincident point, which is in no triangle and has no neighbors; no
\* point is its own neighbor.
DelaunayAnswers(count) ==
  {answer \in [cells : SUBSET (0..(count - 1)),
               yields : SUBSET ((0..(count - 1)) \X (0..(count - 1)))] :
     \A pair \in answer.yields :
        /\ pair[1] # pair[2]
        /\ pair[1] \in answer.cells
        /\ pair[2] \in answer.cells}

\* INIT does not read the store before it: the calls are explored from the
\* store as constructed.
FirstCall == last.op = "none"

\* naturalWidth and naturalHeight of the images: square, landscape, portrait.
ImageSizes == {<<240, 240>>, <<480, 240>>, <<240, 480>>}

\* Math.floor(Math.random() * 24)
RotationDraws == 0..23

\* Piece n is drawn at the corner of the padded region, shifted by n, and
\* turned by the k-th multiple of 15.
DrawAt(k) ==
  [n \in 1..Len(PieceIdTable) |->
     [x |-> padding + n, y |-> padding, rotation |-> k * 15]]

\* Outcomes of the coins Math.random() > 0.5 ? 1 : -1 of the edge tables:
\* all tabs, all blanks, and two mixed tables.
EdgeDraws ==
  {[hEdge |-> [r \in 0..5 |-> [c \in 0..5 |-> 1]],
    vEdge |-> [r \in 0..5 |-> [c \in 0..5 |-> 1]]],
   [hEdge |-> [r \in 0..5 |-> [c \in 0..5 |-> -1]],
    vEdge |-> [r \in 0..5 |-> [c \in 0..5 |-> -1]]],
   [hEdge |-> [r \in 0..5 |-> [c \in 0..5 |->
                 IF (r + c) % 2 = 0 THEN 1 ELSE -1]],
    vEdge |-> [r \in 0..5 |-> [c \in 0..5 |->
                 IF (r + c) % 2 = 0 THEN -1 ELSE 1]]],
   [hEdge |-> [r \in 0..5 |-> [c \in 0..5 |-> IF c = 0 THEN -1 ELSE 1]],
    vEdge |-> [r \in 0..5 |-> [c \in 0..5 |-> IF r = 0 THEN 1 ELSE -1]]]}

\* initialize(img, boardWidth, boardHeight, pieceCount)
initializeWith(count, imgWidth, imgHeight, k, coins) ==
  \E st \in {reducer(state,
                      [type |-> "INIT",
                       pieces |-> generateFor(count, imgWidth, imgHeight,
                                              DrawAt(k), coins)])} :
     /\ SetState(st)
     /\ last' = [op |-> "initialize", id |-> Null, merges |-> <<>>,
                 effect |-> st # state, generator |-> "grid",
                 pieceCount |-> count,
                 imgWidth |-> imgWidth, imgHeight |-> imgHeight]
     /\ now' = 1
     /\ UNCHANGED boardVars

\* initialize with the organic generator in the place of the grid generator.
initializeOrganic(count, answer, k) ==
  \E st \in {reducer(state,
                      [type |-> "INIT",
                       pieces |-> generateOrganic(count, answer.yields,
                                                  answer.cells, DrawAt(k))])} :
     /\ SetState(st)
     /\ last' = [op |-> "initialize", id |-> Null, merges |-> <<>>,
                 effect |-> st # state, generator |-> "organic",
                 pieceCount |-> count]
     /\ now' = 1
     /\ UNCHANGED boardVars

GenNext ==
  \/ \E count \in 1..MaxCount, size \in ImageSizes, k \in RotationDraws :
       \E coins \in EdgeDraws :
          FirstCall /\ initializeWith(count, size[1], size[2], k, coins)
  \/ \E count \in 1..MaxPoints, k \in {0} :
       \E answer \in DelaunayAnswers(count) :
          FirstCall /\ initializeOrganic(count, answer, k)

GenSpec == Init /\ [][GenNext]_vars

(***************************************************************************)
(* centroid on polygons of every shape: degenerate ones, and both          *)
(* orientations.                                                           *)
(***************************************************************************)
MaxVertices == 4

\* The corners a polygon is made of.
Corners == {<<x, y>> : x \in 0..2, y \in 0..2}

\* The lists of n corners.
RECURSIVE PolygonsOf(_)
PolygonsOf(n) ==
  IF n = 0 THEN {<<>>}
  ELSE {Append(p, c) : p \in PolygonsOf(n - 1), c \in Corners}

\* A call of centroid: the argument and the result are kept in the history.
centroidCall(polygon) ==
  /\ last' = [op |-> "centroid", id |-> Null, merges |-> <<>>,
              effect |-> TRUE, polygon |-> polygon,
              result |-> centroid(polygon)]
  /\ UNCHANGED <<pieces, groups, selectedId, imageLoaded, completed,
                 nextZ, now>>
  /\ UNCHANGED boardVars

CentroidNext ==
  /\ FirstCall
  /\ \E n \in 1..MaxVertices : \E polygon \in PolygonsOf(n) :
        centroidCall(polygon)

CentroidSpec == Init /\ [][CentroidNext]_vars

(***************************************************************************)
(* The image proxy (cloudflare/worker.js): the fetch handler of lines      *)
(* 54-69 with its routes.  A call of an async function gives a promise,    *)
(* fulfilled with a value or rejected with a reason; another call returns  *)
(* a value or throws.  env tells how the database and the upstream server  *)
(* answer.                                                                 *)
(***************************************************************************)
\* new Response(body, {status}); the body is kept as its first words and
\* what is appended to them.
Response(status, head, rest) ==
  [kind |-> "response", status |-> status, head |-> head, rest |-> rest]

\* An error, and a string.
Failure(name) ==
  [kind |-> "error", status |-> 0, head |-> name, rest |-> <<>>]

Text(string) ==
  [kind |-> "string", status |-> 0, head |-> string, rest |-> <<>>]

Fulfilled(value) == [state |-> "fulfilled", value |-> value]

Rejected(reason) == [state |-> "rejected", value |-> reason]

Returned(value) == [state |-> "returned", value |-> value]

Thrown(reason) == [state |-> "thrown", value |-> reason]

\* pathname.replace(/^\/+/, ""): a pathname is the sequence of its slashes
\* and of the names between them.
RECURSIVE StripSlashes(_)
StripSlashes(pathname) ==
  IF pathname # <<>> /\ Head(pathname) = "/"
  THEN StripSlashes(Tail(pathname))
  ELSE pathname

\* routes.list
list(request, env) ==
  IF env.db = "fails" THEN Rejected(Failure("D1_ERROR"))
  ELSE Fulfilled(Response(200, "<html>", <<"rows">>))

\* The global fetch(result.url, ...) of defaultRoute; env.upstream is the
\* status the upstream server answers with, 0 when the request fails.
upstreamFetch(env) ==
  IF env.upstream = 0 THEN Rejected(Failure("TypeError"))
  ELSE Fulfilled(Response(env.upstream, "upstream", <<>>))

\* defaultRoute(request, env, id); env.row is what the query finds for the
\* id: a row with a url, a row without one, or no row.
defaultRoute(request, env, path) ==
  LET id == IF path = <<>> THEN <<"2026-02-22">> ELSE path
  IN IF env.db = "fails" THEN Rejected(Failure("D1_ERROR"))
     ELSE IF env.row # "url" THEN Fulfilled(Response(404, "Not found", id))
     ELSE IF upstreamFetch(env).state = "rejected" THEN upstreamFetch(env)
     ELSE Fulfilled(Response(upstreamFetch(env).value.status, "upstream",
                             id))

\* path in routes: the route of the object and what it inherits from
\* Object.prototype.
InRoutes(path) == path \in {<<"list">>, <<"toString">>, <<"__proto__">>}

\* routes[path](request, env)
CallRoute(path, request, env) ==
  CASE path = <<"list">> -> list(request, env)
    [] path = <<"toString">> -> Returned(Text("[object Object]"))
    [] OTHER -> Thrown(Failure("TypeError"))

\* What the body of the try block returns or throws.
TryBlock(request, env) ==
  IF InRoutes(StripSlashes(request.pathname))
  THEN CallRoute(StripSlashes(request.pathname), request, env)
  ELSE defaultRoute(request, env, StripSlashes(request.pathname))

\* fetch(request, env, ctx): the promise the handler returns.  The catch
\* clause sees what the try block throws; a promise the block returns is
\* passed on as it is.
fetch(request, env) ==
  LET r == TryBlock(request, env)
  IN IF r.state = "thrown"
     THEN Fulfilled(Response(500, "Server error", <<r.value.head>>))
     ELSE IF r.state = "returned" THEN Fulfilled(r.value)
     ELSE r

Pathnames ==
  {<<"/">>, <<"/", "list">>, <<"/", "/", "list">>, <<"/", "2026-02-22">>,
   <<"/", "2020-01-01">>, <<"/", "list", "/", "x">>, <<"/", "toString">>,
   <<"/", "__proto__">>}

Requests ==
  [pathname : Pathnames, method : {"GET", "HEAD", "POST"}]

Envs ==
  [db : {"ok", "fails"}, row : {"url", "nourl", "none"},
   upstream : {200, 404, 0}]

\* One request: the request, the environment and the outcome are kept in
\* the history.
fetchCall(request, env) ==
  /\ last' = [op |-> "fetch", id |-> Null, merges |-> <<>>,
              effect |-> TRUE, request |-> request, env |-> env,
              outcome |-> fetch(request, env)]
  /\ UNCHANGED <<storeVars, now, boardVars>>

WorkerNext ==
  /\ FirstCall
  /\ \E request \in Requests, env \in Envs : fetchCall(request, env)

WorkerSpec == Init /\ [][WorkerNext]_vars

(***************************************************************************)
(* Properties.                                                             *)
(***************************************************************************)
\* The ids of the pieces initialize stored.
OriginalIds == {pieces[i].id : i \in 1..Len(pieces)}

\* getEntities: the pieces no group lists.
UngroupedIds ==
  {pid \in OriginalIds :
     \A k \in 1..Len(groups) : ~Includes(groups[k].pieceIds, pid)}

CountIn(s, e) == Cardinality({k \in 1..Len(s) : s[k] = e})

\* How often a piece id occurs among the entities of the board.
Occurrences(pid) ==
  SeqSum([i \in 1..Len(groups) |-> CountIn(groups[i].pieceIds, pid)])
  + (IF pid \in UngroupedIds THEN 1 ELSE 0)

\* A piece id some group lists although the piece is still in the piece list.
IsStale(st, id) ==
  /\ HasPiece(st, id)
  /\ \E i \in 1..Len(st.groups) : Includes(st.groups[i].pieceIds, id)

\* C1: in every reachable state the pieceIds of all groups together with
\* the ungrouped pieces contain every original piece id exactly once: none
\* in two groups, none twice inside one group, none missing.
C1_PieceIdsPartition ==
  /\ \A pid \in OriginalIds : Occurrences(pid) = 1
  /\ \A i \in 1..Len(groups) : Range(groups[i].pieceIds) \subseteq OriginalIds

\* C6: in every reachable state completed is true exactly when there is
\* one group and its membership is the full original piece set.
C6_CompletedIffWhole ==
  completed <=> (/\ Len(groups) = 1
                 /\ Range(groups[1].pieceIds) = OriginalIds)

\* C7: once completed is true it stays true after every select, move,
\* rotate and trySnap; only initialize clears it.
C7_CompletionTerminal ==
  [][completed => (completed' \/ last'.op = "initialize")]_vars

\* C9: trySnap with the id of a piece an earlier merge absorbed performs no
\* merge and leaves groups, selectedId, nextZ and completed unchanged.
C9_StaleSnapNoOp ==
  [][(last'.op = "snap" /\ IsStale(state, last'.id))
       => /\ last'.merges = <<>>
          /\ groups' = groups
          /\ selectedId' = selectedId
          /\ nextZ' = nextZ
          /\ completed' = completed]_vars

\* pid is a neighbour piece of a piece the piece-id list ids names.
NeighbourOf(st, ids, pid) ==
  \E k \in 1..Len(ids) :
    HasPiece(st, ids[k]) /\ Includes(PieceOf(st, ids[k]).neighborIds, pid)

\* Square of the distance between the position the projection predicts for
\* the entity nb and its board position.
PredictedDistSq(active, nb) ==
  distSq(Project(active, nb.centroid, Scale), <<nb.x, nb.y>>)

\* The owner of pid is another entity than active, has the rotation of
\* active and sits exactly where the projection predicts.
AlignedOwner(st, active, pid) ==
  /\ HasOwner(st, pid)
  /\ LET nb == entityOfPiece(st, pid)
     IN /\ nb.entityId # active.entityId
        /\ nb.rotation = active.rotation
        /\ PredictedDistSq(active, nb) = 0

\* One group of st lists every id that occurs in one of the lists.
InOneGroup(st, lists) ==
  \E i \in 1..Len(st.groups) :
    \A k \in 1..Len(lists) :
      Range(lists[k]) \subseteq Range(st.groups[i].pieceIds)

\* C2: when the owner of a neighbour piece of the active entity is another
\* entity with the same rotation, exactly at the predicted position,
\* trySnap on the active entity leaves both in one group.
C2_AlignedNeighboursMerge ==
  [][(last'.op = "snap" /\ HasActive(state, last'.id)) =>
       \A pid \in PieceIds :
         (/\ NeighbourOf(state, ActiveOf(state, last'.id).pieceIds, pid)
          /\ AlignedOwner(state, ActiveOf(state, last'.id), pid))
         => InOneGroup(state', <<ActiveOf(state, last'.id).pieceIds,
                                entityOfPiece(state, pid).pieceIds>>)]_vars

\* A trySnap whose first merge joined two entities of the same rotation at
\* distance 0.
C2_Witness ==
  /\ last.op = "snap"
  /\ Len(last.merges) > 0
  /\ last.merges[1].active.rotation = last.merges[1].neighbor.rotation
  /\ PredictedDistSq(last.merges[1].active, last.merges[1].neighbor) = 0
  /\ InOneGroup(state, <<last.merges[1].active.pieceIds,
                         last.merges[1].neighbor.pieceIds>>)

\* The absolute value of the signed difference of two rotations normalised
\* into (-180, 180].
TrueDiff(a, n) ==
  LET d == (a - n) % 360
  IN IF d > 180 THEN 360 - d ELSE d

\* The entity the last trySnap tried last: the group of its last merge, or
\* the entity it was called with.
FinalActiveId ==
  IF last.merges = <<>> THEN last.id
  ELSE last.merges[Len(last.merges)].group

\* C3: the rotation gate accepts a candidate exactly when the normalised
\* signed difference of the two rotations is at most 15 degrees in absolute
\* value, on both sides of the 0/360 wrap-around: no merge joins rotations
\* further apart, and when trySnap returns no candidate that passes the
\* position gate and is at most 15 degrees off is left unmerged.
C3_RotationGateExact ==
  (last.op = "snap" /\ HasActive(state, FinalActiveId)) =>
    /\ \A k \in 1..Len(last.merges) :
         TrueDiff(last.merges[k].active.rotation,
                  last.merges[k].neighbor.rotation) <= SNAP_ANGLE
    /\ LET active == ActiveOf(state, FinalActiveId)
           cands == neighborPieceIds(state, active)
       IN \A i \in 1..Len(cands) :
            (/\ HasOwner(state, cands[i])
             /\ entityOfPiece(state, cands[i]).entityId # active.entityId
             /\ PositionGate(active, entityOfPiece(state, cands[i]), Scale))
            => TrueDiff(active.rotation,
                        entityOfPiece(state, cands[i]).rotation) > SNAP_ANGLE

\* C4: trySnap never merges the active entity with a candidate more than 20
\* board units from its predicted position, and the position gate passes
\* exactly the candidates at most 20 units away.
C4_PositionGate ==
  /\ \A k \in 1..Len(last.merges) :
       PredictedDistSq(last.merges[k].active, last.merges[k].neighbor)
         <= SNAP_DISTANCE * SNAP_DISTANCE
  /\ \A id \in EntityIds, pid \in PieceIds :
       HasOwner(state, pid) =>
         (PositionGate(ActiveOf(state, id), entityOfPiece(state, pid), Scale)
            <=> PredictedDistSq(ActiveOf(state, id),
                                entityOfPiece(state, pid))
                  <= SNAP_DISTANCE * SNAP_DISTANCE)

\* A trySnap that merged a candidate exactly 20 units off and left a
\* neighbour of the same rotation exactly 21 units off unmerged.
C4_Witness ==
  /\ last.op = "snap"
  /\ \E k \in 1..Len(last.merges) :
       PredictedDistSq(last.merges[k].active, last.merges[k].neighbor)
         = SNAP_DISTANCE * SNAP_DISTANCE
  /\ HasActive(state, FinalActiveId)
  /\ \E pid \in PieceIds :
       /\ NeighbourOf(state, ActiveOf(state, FinalActiveId).pieceIds, pid)
       /\ entityOfPiece(state, pid).entityId # FinalActiveId
       /\ entityOfPiece(state, pid).rotation
            = ActiveOf(state, FinalActiveId).rotation
       /\ PredictedDistSq(ActiveOf(state, FinalActiveId),
                          entityOfPiece(state, pid))
            = (SNAP_DISTANCE + 1) * (SNAP_DISTANCE + 1)

\* C5: when pieces b and c are in two further entities, b is a neighbour of
\* the active entity, c a neighbour of the active entity or of the owner of
\* b, and both owners are exactly aligned with the active entity, a single
\* trySnap on the active entity ends with one group listing all three.
C5_Chaining ==
  [][(last'.op = "snap" /\ HasActive(state, last'.id)) =>
       \A b \in PieceIds, c \in PieceIds :
         (/\ NeighbourOf(state, ActiveOf(state, last'.id).pieceIds, b)
          /\ AlignedOwner(state, ActiveOf(state, last'.id), b)
          /\ AlignedOwner(state, ActiveOf(state, last'.id), c)
          /\ entityOfPiece(state, b).entityId
               # entityOfPiece(state, c).entityId
          /\ \/ NeighbourOf(state, ActiveOf(state, last'.id).pieceIds, c)
             \/ NeighbourOf(state, entityOfPiece(state, b).pieceIds, c))
         => InOneGroup(state', <<ActiveOf(state, last'.id).pieceIds,
                                entityOfPiece(state, b).pieceIds,
                                entityOfPiece(state, c).pieceIds>>)]_vars

\* A single trySnap that merged the active entity with two exactly aligned
\* entities, the second of them reached through the first.
C5_Witness ==
  /\ last.op = "snap"
  /\ Len(last.merges) >= 2
  /\ PredictedDistSq(last.merges[1].active, last.merges[1].neighbor) = 0
  /\ last.merges[1].active.rotation = last.merges[1].neighbor.rotation
  /\ \E k \in 2..Len(last.merges) :
       /\ PredictedDistSq(last.merges[1].active, last.merges[k].neighbor) = 0
       /\ last.merges[1].active.rotation = last.merges[k].neighbor.rotation
       /\ ~NeighbourOf(state, last.merges[1].active.pieceIds,
                       last.merges[k].neighbor.pieceIds[1])
       /\ InOneGroup(state, <<last.merges[1].active.pieceIds,
                              last.merges[1].neighbor.pieceIds,
                              last.merges[k].neighbor.pieceIds>>)

\* Some candidate of the entity id passes both gates.
SomeCandidatePasses(st, id) ==
  LET active == ActiveOf(st, id)
  IN \E pid \in PieceIds :
       /\ NeighbourOf(st, active.pieceIds, pid)
       /\ ~Includes(active.pieceIds, pid)
       /\ HasOwner(st, pid)
       /\ entityOfPiece(st, pid).entityId # active.entityId
       /\ RotationGate(active.rotation, entityOfPiece(st, pid).rotation)
       /\ PositionGate(active, entityOfPiece(st, pid), Scale)

\* C8: trySnap on an entity none of whose candidates passes both gates
\* leaves pieces, groups, selectedId, nextZ and completed unchanged.
C8_NoMatchUnchanged ==
  [][(/\ last'.op = "snap"
      /\ HasActive(state, last'.id)
      /\ ~SomeCandidatePasses(state, last'.id))
     => state' = state]_vars

\* A trySnap on an entity with a neighbour in another entity, rejected by a
\* gate: nothing was merged.
C8_Witness ==
  /\ last.op = "snap"
  /\ HasActive(state, last.id)
  /\ ~SomeCandidatePasses(state, last.id)
  /\ last.merges = <<>>
  /\ \E pid \in PieceIds :
       /\ NeighbourOf(state, ActiveOf(state, last.id).pieceIds, pid)
       /\ entityOfPiece(state, pid).entityId # last.id
       /\ RotationGate(ActiveOf(state, last.id).rotation,
                       entityOfPiece(state, pid).rotation)
       /\ ~PositionGate(ActiveOf(state, last.id),
                        entityOfPiece(state, pid), Scale)

\* C10: move, rotate and trySnap with an id that is neither a piece id nor
\* a group id leave pieces, groups, selectedId, nextZ and completed
\* unchanged.
C10_UnknownIdNoOp ==
  [][(/\ last'.op \in {"move", "rotate", "snap"}
      /\ ~HasPiece(state, last'.id)
      /\ ~HasGroup(state, last'.id))
     => state' = state]_vars

\* A move with an unknown id on a board that holds pieces and a group.
C10_Witness ==
  /\ last.op = "move"
  /\ ~HasPiece(state, last.id)
  /\ ~HasGroup(state, last.id)
  /\ Len(pieces) > 0
  /\ Len(groups) > 0

\* The zIndex of every piece and of every group, in list order.
ZIndexes(st) ==
  <<[i \in 1..Len(st.pieces) |-> st.pieces[i].zIndex],
    [i \in 1..Len(st.groups) |-> st.groups[i].zIndex]>>

\* C11: select with a non-null id that names no piece and no group is
\* ignored: selectedId, nextZ and every zIndex are unchanged.
C11_SelectUnknownIgnored ==
  [][(/\ last'.op = "select"
      /\ last'.id # Null
      /\ ~HasPiece(state, last'.id)
      /\ ~HasGroup(state, last'.id))
     => /\ selectedId' = selectedId
        /\ nextZ' = nextZ
        /\ ZIndexes(state') = ZIndexes(state)]_vars

\* The store after the first k merges of a chain that started in st.
RECURSIVE AfterMerges(_, _, _)
AfterMerges(st, merges, k) ==
  IF k = 0 THEN st
  ELSE MergeState(AfterMerges(st, merges, k - 1), merges[k].active,
                  merges[k].neighbor, Scale, merges[k].group)

\* The groups of st that list one of the piece ids.
OwnersOf(st, ids) ==
  {i \in 1..Len(st.groups) : Range(st.groups[i].pieceIds) \cap ids # {}}

\* The pieces of st no group lists.
SinglesOf(st) ==
  {st.pieces[i].id : i \in 1..Len(st.pieces)}
    \ UNION {Range(st.groups[i].pieceIds) : i \in 1..Len(st.groups)}

\* Merge k of the chain replaced its two entities: before is the store the
\* merge started from, after the store it produced.
Replaced(before, after, m) ==
  LET new == after.groups[Len(after.groups)]
      members == Range(new.pieceIds)
      prior == OwnersOf(before, members)
  IN /\ new.id = m.group
     /\ members = Range(m.active.pieceIds)
                    \cup UNION {Range(before.groups[i].pieceIds) :
                                  i \in OwnersOf(before,
                                                 Range(m.neighbor.pieceIds))}
                    \cup Range(m.neighbor.pieceIds)
     /\ members = Range(m.active.pieceIds) \cup Range(m.neighbor.pieceIds)
     /\ \A i \in 1..(Len(after.groups) - 1) :
           /\ after.groups[i].id \notin {m.active.entityId, m.neighbor.entityId}
           /\ Range(after.groups[i].pieceIds) \cap members = {}
     /\ members \cap SinglesOf(after) = {}

\* C12: a merge makes a group whose pieceIds are the union of the active
\* entity's and of the whole owning entity of the candidate, and replaces
\* both: no other group keeps one of the members and no member is left an
\* ungrouped single.
C12_MergeReplacesBoth ==
  [][(last'.op = "snap" /\ last'.merges # <<>>)
     => \A k \in 1..Len(last'.merges) :
          Replaced(AfterMerges(state, last'.merges, k - 1),
                   AfterMerges(state, last'.merges, k),
                   last'.merges[k])]_vars

\* Where entity e shows the piece with id pid on the board.
BoardPosition(st, e, pid) == Project(e, PieceOf(st, pid).centroid, Scale)

\* The group a merge appended to the group list of st.
NewGroupOf(st) == st.groups[Len(st.groups)]

\* Two board positions agree: exactly at a multiple of a quarter turn, where
\* the projection is exact, and otherwise within the one board unit the
\* rounding of the projection to whole units contributes.
SamePosition(p, q, rotation) ==
  IF rotation % 90 = 0 THEN p = q
  ELSE Abs(p[1] - q[1]) <= 1 /\ Abs(p[2] - q[2]) <= 1

\* C13: a merge does not move the active entity: every piece of the active
\* entity has, through the new group, the board position it had through the
\* active entity before the merge.
C13_NoJump ==
  [][(last'.op = "snap" /\ last'.merges # <<>>)
     => \A k \in 1..Len(last'.merges) :
          \A new \in {NewGroupOf(AfterMerges(state, last'.merges, k))} :
            \A i \in 1..Len(last'.merges[k].active.pieceIds) :
              SamePosition(
                BoardPosition(state, new, last'.merges[k].active.pieceIds[i]),
                BoardPosition(state, last'.merges[k].active,
                              last'.merges[k].active.pieceIds[i]),
                last'.merges[k].active.rotation)]_vars

\* A merge by a quarter-turned active group of several pieces.
C13_Witness ==
  /\ last.op = "snap"
  /\ \E k \in 1..Len(last.merges) :
       /\ Len(last.merges[k].active.pieceIds) >= 2
       /\ last.merges[k].active.rotation = 90
  /\ NewGroupOf(state).rotation = 90

\* C14: the rotation of every piece and of every group is in [0, 360) in
\* every reachable state: after generation, after every rotate call of the
\* rotate handle, after the 90-degree snap and after merges.
C14_RotationsNormalized ==
  /\ \A i \in 1..Len(pieces) : pieces[i].rotation \in 0..359
  /\ \A i \in 1..Len(groups) : groups[i].rotation \in 0..359

\* A rotate call whose pointer angle was negative has set its target.
C14_Witness ==
  /\ last.op = "rotate"
  /\ HasPiece(state, last.id)
  /\ PieceOf(state, last.id).rotation = newRotation(-5)
  /\ PieceOf(state, last.id).rotation # -5

\* The zIndex of every piece of st and of every group of st but the target:
\* the entity named id, or the group at the end of the list for a merge.
OtherZIndexes(st, id, merged) ==
  {st.pieces[i].zIndex : i \in {j \in 1..Len(st.pieces) : st.pieces[j].id # id}}
  \cup {st.groups[i].zIndex :
          i \in {j \in 1..Len(st.groups) :
                   IF merged THEN j # Len(st.groups) ELSE st.groups[j].id # id}}

\* The zIndex of the entity named id.
ZIndexOf(st, id) ==
  IF HasGroup(st, id) THEN GroupOf(st, id).zIndex ELSE PieceOf(st, id).zIndex

\* C15: a select of an entity of the board, and every merge, gives the
\* selected entity or the new group a zIndex above that of every other piece
\* and group, and nextZ never decreases except by initialize.
C15_TopOfStack ==
  [][/\ (last'.op = "select" /\ last'.id \in EntityIds)
          => \A z \in OtherZIndexes(state', last'.id, FALSE) :
               ZIndexOf(state', last'.id) > z
     /\ (last'.op = "snap" /\ last'.merges # <<>>)
          => \A k \in 1..Len(last'.merges) :
               \A after \in {AfterMerges(state, last'.merges, k)} :
                 \A z \in OtherZIndexes(after, last'.merges[k].group, TRUE) :
                   NewGroupOf(after).zIndex > z
     /\ last'.op # "initialize" => nextZ' >= nextZ]_vars

\* A group was selected after another entity had been selected or merged
\* since the group was made.
C15_Witness ==
  /\ last.op = "select"
  /\ HasGroup(state, last.id)
  /\ GroupOf(state, last.id).zIndex = nextZ - 1
  /\ Len(groups) = 2
  /\ \E i \in 1..Len(groups) :
       groups[i].id # last.id /\ groups[i].zIndex > Len(pieces) + 1

\* C16: the group a merge makes has the rotation of the active entity,
\* whatever the rotation of the candidate's entity.
C16_ActiveRotationKept ==
  [][(last'.op = "snap" /\ last'.merges # <<>>)
     => \A k \in 1..Len(last'.merges) :
          NewGroupOf(AfterMerges(state, last'.merges, k)).rotation
            = last'.merges[k].active.rotation]_vars

\* A merge of two entities of different rotation: the group has the active
\* entity's.
C16_Witness ==
  /\ last.op = "snap"
  /\ Len(last.merges) = 1
  /\ last.merges[1].active.rotation # last.merges[1].neighbor.rotation
  /\ NewGroupOf(state).id = last.merges[1].group
  /\ NewGroupOf(state).rotation = last.merges[1].active.rotation

\* C17: after a trySnap that merged at least once, selectedId is the id of
\* the group of the last merge of the chain, and that group is in the group
\* list.
C17_LastGroupSelected ==
  [][(last'.op = "snap" /\ last'.merges # <<>>)
     => /\ selectedId' = last'.merges[Len(last'.merges)].group
        /\ HasGroup(state', selectedId')
        /\ NewGroupOf(state').id = selectedId']_vars

\* A chain of merges whose groups were given different ids: the last one is
\* selected, the first one is gone.
C17_Witness ==
  /\ last.op = "snap"
  /\ Len(last.merges) >= 2
  /\ last.merges[1].group # last.merges[Len(last.merges)].group
  /\ selectedId = last.merges[Len(last.merges)].group
  /\ ~HasGroup(state, last.merges[1].group)

\* C18: initialize discards what was there: afterwards the group list is
\* empty, every generated piece is an ungrouped single, selectedId is null
\* and completed is false.
C18_InitializeDiscards ==
  [][last'.op = "initialize"
     => /\ groups' = <<>>
        /\ Len(pieces') = NumPieces
        /\ SinglesOf(state') = PieceIds
        /\ selectedId' = Null
        /\ completed' = FALSE]_vars

\* The board right after initialize.
C18_Witness ==
  /\ last.op = "initialize"
  /\ SinglesOf(state) = PieceIds
  /\ groups = <<>>
  /\ selectedId = Null
  /\ ~completed

\* C19: initialize resets nextZ to pieceCount + 1, pieceCount being the
\* count the caller asked for.
C19_CounterAfterRequest ==
  [][last'.op = "initialize" => nextZ' = last'.pieceCount + 1]_vars

\* C19 as the code has it: initialize resets nextZ to the number of
\* generated pieces plus one, rows * cols + 1 of the grid the generator
\* makes of the request, which is above the zIndex of every piece of the
\* grid.
C19_CounterAfterGenerated ==
  [][last'.op = "initialize"
     => /\ nextZ' = Len(pieces') + 1
        /\ last'.generator = "grid"
             => /\ Len(pieces')
                     = GridRows(last'.pieceCount, last'.imgWidth,
                                last'.imgHeight)
                       * GridCols(last'.pieceCount, last'.imgWidth,
                                  last'.imgHeight)
                /\ \A i \in 1..Len(pieces') :
                      pieces'[i].zIndex < nextZ' - 1]_vars

\* initialize was asked for five pieces and generated six.
C19_Witness ==
  /\ last.op = "initialize"
  /\ last.generator = "grid"
  /\ last.pieceCount = 5
  /\ Len(pieces) = 6
  /\ nextZ = 7

\* C20: in every piece list of the generator the neighbour relation is
\* symmetric, no piece lists itself, and every listed id is the id of a
\* piece of the list.
C20_NeighboursSymmetric ==
  /\ \A i, j \in 1..Len(pieces) :
       Includes(pieces[i].neighborIds, pieces[j].id)
         <=> Includes(pieces[j].neighborIds, pieces[i].id)
  /\ \A i \in 1..Len(pieces) :
       /\ ~Includes(pieces[i].neighborIds, pieces[i].id)
       /\ Range(pieces[i].neighborIds) \subseteq OriginalIds

\* A grid of three rows: the piece in the middle of the left column lists
\* the pieces above, below and to its right.
C20_Witness ==
  /\ last.op = "initialize"
  /\ last.generator = "grid"
  /\ Len(pieces) = 6
  /\ pieces[3].neighborIds = <<"piece-0", "piece-4", "piece-3">>
  /\ Includes(pieces[4].neighborIds, pieces[3].id)

\* The cell of a grid piece is the box of half a cell around its centroid;
\* a tip protrudes when it lies outside that box.
Protrudes(piece, tip, cellW, cellH) ==
  \/ 2 * Abs(tip[1] - piece.centroid[1]) > cellW
  \/ 2 * Abs(tip[2] - piece.centroid[2]) > cellH

\* The edges a and b of two adjacent cells interlock: both are curved, they
\* have the same tip, and the tip protrudes from exactly one of the cells.
Interlock(pa, a, pb, b, cellW, cellH) ==
  /\ pa.path[a].curved
  /\ pb.path[b].curved
  /\ pa.path[a].tip = pb.path[b].tip
  /\ Protrudes(pa, pa.path[a].tip, cellW, cellH)
       # Protrudes(pb, pb.path[b].tip, cellW, cellH)

\* C21: in every grid the generator makes, the edge two adjacent cells share
\* is a tab for one and a blank for the other, and an edge is flat exactly
\* when it lies on the boundary of the puzzle.
C21_EdgesComplementary ==
  (last.op = "initialize" /\ last.generator = "grid")
  => \A cols \in {GridCols(last.pieceCount, last.imgWidth, last.imgHeight)},
        rows \in {GridRows(last.pieceCount, last.imgWidth, last.imgHeight)} :
       \A n \in 1..Len(pieces) :
         LET r == (n - 1) \div cols
             c == (n - 1) % cols
             cellW == last.imgWidth \div cols
             cellH == last.imgHeight \div rows
         IN /\ pieces[n].path[1].curved <=> r > 0
            /\ pieces[n].path[2].curved <=> c < cols - 1
            /\ pieces[n].path[3].curved <=> r < rows - 1
            /\ pieces[n].path[4].curved <=> c > 0
            /\ c < cols - 1
                 => Interlock(pieces[n], 2, pieces[n + 1], 4, cellW, cellH)
            /\ r < rows - 1
                 => Interlock(pieces[n], 3, pieces[n + cols], 1, cellW, cellH)

\* A grid of three columns drawn with mixed coins: the middle piece of the
\* top row has a tab on one side and a blank on the other.
C21_Witness ==
  /\ last.op = "initialize"
  /\ last.generator = "grid"
  /\ GridCols(last.pieceCount, last.imgWidth, last.imgHeight) = 3
  /\ Protrudes(pieces[2], pieces[2].path[2].tip,
               last.imgWidth \div 3, last.imgHeight \div 2)
  /\ ~Protrudes(pieces[2], pieces[2].path[4].tip,
                last.imgWidth \div 3, last.imgHeight \div 2)
  /\ pieces[2].path[4].curved
  /\ ~pieces[2].path[1].curved

\* C22: every grid the generator makes has two or more columns and two or
\* more rows of cells, one piece per cell, and no two pieces with the same
\* id.
C22_GridAtLeastTwoByTwo ==
  (last.op = "initialize" /\ last.generator = "grid")
  => \A colsAt \in {{pieces[n].centroid[1] : n \in 1..Len(pieces)}},
        rowsAt \in {{pieces[n].centroid[2] : n \in 1..Len(pieces)}} :
       /\ Cardinality(colsAt) >= 2
       /\ Cardinality(rowsAt) >= 2
       /\ Len(pieces) = Cardinality(colsAt) * Cardinality(rowsAt)
       /\ \A x \in colsAt, y \in rowsAt :
            \E n \in 1..Len(pieces) : pieces[n].centroid = <<x, y>>
       /\ \A i, j \in 1..Len(pieces) : pieces[i].id = pieces[j].id => i = j

\* One piece was requested of a square image and four were made.
C22_Witness ==
  /\ last.op = "initialize"
  /\ last.generator = "grid"
  /\ last.pieceCount = 1
  /\ last.imgWidth = last.imgHeight
  /\ Len(pieces) = 4

\* C23: when a rotate gesture is released on an entity within 10 degrees of
\* a quarter turn, the merge that follows sees the entity on the quarter
\* turn: the first merge of the release has the snapped rotation as the
\* rotation of its active entity, the rotation gate passed on that value,
\* and the entity, or the group it ends up in, has that rotation afterwards.
C23_SnapBeforeMerge ==
  [][(last'.op = "release" /\ HasActive(state, last'.id))
     => \A pre \in {ActiveOf(state, last'.id).rotation} :
          Abs(pre - nearest90(pre)) <= 10
          => IF last'.merges = <<>>
             THEN ActiveOf(state', last'.id).rotation = nearest90(pre) % 360
             ELSE /\ last'.merges[1].active.rotation = nearest90(pre) % 360
                  /\ RotationGate(nearest90(pre) % 360,
                                  last'.merges[1].neighbor.rotation)
                  /\ NewGroupOf(state').rotation = nearest90(pre) % 360]_vars

\* A release whose rotation snap moved the entity onto the quarter turn and
\* whose merge then saw it there.
C23_Witness ==
  /\ last.op = "release"
  /\ last.snapped
  /\ last.merges # <<>>
  /\ last.merges[1].active.rotation = 0
  /\ NewGroupOf(state).rotation = 0

\* The polygons of a group are those of its members, in the order of
\* pieceIds.
PolygonsCarried(g) ==
  /\ Len(g.polygons) = Len(g.pieceIds)
  /\ \A i \in 1..Len(g.pieceIds) :
       g.polygons[i] = PieceOf(state, g.pieceIds[i]).polygon

\* C24: every group carries the outlines of its members unchanged: polygon i
\* and path i of the group are the polygon and the path of piece
\* pieceIds[i], and both lists are as long as pieceIds.
C24_OutlinesCarried ==
  \A n \in 1..Len(groups) :
    /\ PolygonsCarried(groups[n])
    /\ "paths" \in DOMAIN groups[n]
    /\ Len(groups[n].paths) = Len(groups[n].pieceIds)
    /\ \A i \in 1..Len(groups[n].pieceIds) :
         groups[n].paths[i] = PieceOf(state, groups[n].pieceIds[i]).path

\* The part of C24 the code keeps: the polygons of every group.
C24_PolygonsOnly ==
  \A n \in 1..Len(groups) : PolygonsCarried(groups[n])

\* C25: a move of an entity of the board by (dx, dy) adds dx to its x and dy
\* to its y, however far that takes it, and leaves everything else as it
\* was: every other piece and group, the other fields of the entity, the
\* selection, the z-order counter and completed.
C25_MoveOnlyShifts ==
  [][(last'.op = "move" /\ last'.id \in EntityIds)
     => /\ selectedId' = selectedId
        /\ nextZ' = nextZ
        /\ completed' = completed
        /\ imageLoaded' = imageLoaded
        /\ Len(pieces') = Len(pieces)
        /\ Len(groups') = Len(groups)
        /\ \A i \in 1..Len(pieces) :
             pieces'[i] = IF pieces[i].id = last'.id
                          THEN [pieces[i] EXCEPT !.x = @ + last'.dx,
                                                 !.y = @ + last'.dy]
                          ELSE pieces[i]
        /\ \A i \in 1..Len(groups) :
             groups'[i] = IF groups[i].id = last'.id
                          THEN [groups[i] EXCEPT !.x = @ + last'.dx,
                                                 !.y = @ + last'.dy]
                          ELSE groups[i]]_vars

\* A group was moved off the board to the right and upwards while it was
\* selected.
C25_Witness ==
  /\ last.op = "move"
  /\ last.dx = 900
  /\ last.dy = -900
  /\ HasGroup(state, last.id)
  /\ GroupOf(state, last.id).x > BoardWidth
  /\ GroupOf(state, last.id).y < 0
  /\ selectedId = last.id

\* C26: the id a merge gives its group is the id of no piece, of no group of
\* the store the call started from, and of no group an earlier merge of the
\* same call made.
C26_GroupIdsFresh ==
  [][(last'.op \in {"snap", "release"} /\ last'.merges # <<>>)
     => \A k \in 1..Len(last'.merges) :
          /\ last'.merges[k].group \notin OriginalIds
          /\ last'.merges[k].group \notin GroupIdsNow
          /\ \A j \in 1..(k - 1) :
               last'.merges[j].group # last'.merges[k].group]_vars

\* Twice the signed area of a polygon.
SignedArea2(polygon) ==
  SeqSum([i \in 1..Len(polygon) |->
            polygon[i][1] * polygon[(i % Len(polygon)) + 1][2]
            - polygon[(i % Len(polygon)) + 1][1] * polygon[i][2]])

\* c is the mean of the numbers of s, to the nearest unit.
IsMean(c, s) ==
  2 * Abs(Len(s) * c - SeqSum(s)) <= Len(s)

\* C27: centroid never divides by zero, and for a polygon of signed area
\* zero it returns the mean of the vertices.
C27_DegenerateCentroid ==
  last.op = "centroid"
  => /\ last.result # NotFinite
     /\ SignedArea2(last.polygon) = 0
          => /\ IsMean(last.result[1],
                       [i \in 1..Len(last.polygon) |-> last.polygon[i][1]])
             /\ IsMean(last.result[2],
                       [i \in 1..Len(last.polygon) |-> last.polygon[i][2]])

\* Three corners on a line, none of them the mean, and the mean returned.
C27_Witness ==
  /\ last.op = "centroid"
  /\ last.polygon = <<<<0, 0>>, <<2, 2>>, <<1, 1>>>>
  /\ SignedArea2(last.polygon) = 0
  /\ last.result = <<1, 1>>

\* The number of entities of st: the pieces no group lists and the groups.
EntityCount(st) == Cardinality(SinglesOf(st)) + Len(st.groups)

\* C28: a trySnap call makes at most one merge less than there were
\* entities when it was called, and every merge of its chain leaves fewer
\* entities than it found.
C28_ChainBounded ==
  [][(last'.op \in {"snap", "release"} /\ last'.merges # <<>>)
     => /\ Len(last'.merges) <= EntityCount(state) - 1
        /\ \A k \in 1..Len(last'.merges) :
             EntityCount(AfterMerges(state, last'.merges, k))
               < EntityCount(AfterMerges(state, last'.merges, k - 1))]_vars

\* C28 for calls on an entity of the board: the same bound and the same
\* decrease, when the id names an ungrouped piece or a group.
C28_ChainBoundedOnEntities ==
  [][(/\ last'.op \in {"snap", "release"}
      /\ last'.merges # <<>>
      /\ last'.id \in EntityIds)
     => /\ Len(last'.merges) <= EntityCount(state) - 1
        /\ \A k \in 1..Len(last'.merges) :
             EntityCount(AfterMerges(state, last'.merges, k))
               < EntityCount(AfterMerges(state, last'.merges, k - 1))]_vars

\* C29: the store a merging trySnap returns is a fixpoint: no candidate of
\* the group of its last merge passes both gates, and a trySnap on that
\* group leaves the store as it is.
C29_ResultIsFixpoint ==
  [][(last'.op \in {"snap", "release"} /\ last'.merges # <<>>)
     => \A final \in {last'.merges[Len(last'.merges)].group} :
          /\ HasGroup(state', final)
          /\ ~SomeCandidatePasses(state', final)
          /\ reducer(state', [type |-> "TRY_SNAP", id |-> final,
                              scale |-> Scale,
                              ids |-> <<GroupId(1, 1)>>]) = state']_vars

\* A trySnap merged twice and returned a group with a neighbour left in
\* another entity, which a gate rejects.
C29_Witness ==
  /\ last.op = "snap"
  /\ Len(last.merges) = 2
  /\ HasGroup(state, FinalActiveId)
  /\ \E pid \in PieceIds :
       /\ NeighbourOf(state, GroupOf(state, FinalActiveId).pieceIds, pid)
       /\ HasOwner(state, pid)
       /\ entityOfPiece(state, pid).entityId # FinalActiveId
  /\ ~SomeCandidatePasses(state, FinalActiveId)

\* The store a call of trySnap starts from: for a release, the store after
\* the rotation snap.
StartOf(op, id) ==
  IF op = "release" THEN snapRotation(state, id) ELSE state

\* C30: every entity that owns a neighbour piece of the active entity and
\* passes both gates against it when trySnap is called is, when the call
\* returns, in the group of the last merge together with the active entity.
C30_AllPassingMerged ==
  [][(last'.op \in {"snap", "release"} /\ HasActive(state, last'.id))
     => \A start \in {StartOf(last'.op, last'.id)} :
        \A active \in {ActiveOf(start, last'.id)} :
        \A pid \in PieceIds :
          (/\ NeighbourOf(start, active.pieceIds, pid)
           /\ ~Includes(active.pieceIds, pid)
           /\ HasOwner(start, pid)
           /\ entityOfPiece(start, pid).entityId # active.entityId
           /\ RotationGate(active.rotation, entityOfPiece(start, pid).rotation)
           /\ PositionGate(active, entityOfPiece(start, pid), Scale))
          => /\ last'.merges # <<>>
             /\ NewGroupOf(state').id = last'.merges[Len(last'.merges)].group
             /\ Range(active.pieceIds)
                  \cup Range(entityOfPiece(start, pid).pieceIds)
                  \subseteq Range(NewGroupOf(state').pieceIds)]_vars

\* Two entities passed both gates against the active entity when trySnap
\* was called, one of them off its predicted position, and both are in the
\* group the call returned.
C30_Witness ==
  /\ last.op = "snap"
  /\ Len(last.merges) >= 2
  /\ \E k \in 2..Len(last.merges) :
       /\ \E pid \in Range(last.merges[k].neighbor.pieceIds) :
            NeighbourOf(state, last.merges[1].active.pieceIds, pid)
       /\ RotationGate(last.merges[1].active.rotation,
                       last.merges[k].neighbor.rotation)
       /\ PositionGate(last.merges[1].active, last.merges[k].neighbor, Scale)
       /\ PredictedDistSq(last.merges[1].active, last.merges[k].neighbor) > 0
       /\ Range(last.merges[k].neighbor.pieceIds)
            \subseteq Range(NewGroupOf(state).pieceIds)
  /\ PositionGate(last.merges[1].active, last.merges[1].neighbor, Scale)
  /\ Range(last.merges[1].active.pieceIds)
       \cup Range(last.merges[1].neighbor.pieceIds)
       \subseteq Range(NewGroupOf(state).pieceIds)

\* Two pieces are cells of the grid that share an edge: their centroids are
\* one cell apart along one axis and level along the other.
ShareEdge(p, q) ==
  \/ /\ p.centroid[2] = q.centroid[2]
     /\ Abs(p.centroid[1] - q.centroid[1]) = CellW
  \/ /\ p.centroid[1] = q.centroid[1]
     /\ Abs(p.centroid[2] - q.centroid[2]) = CellH

\* The ids of ids that chains of neighbours inside ids link to the ids of
\* seen.
RECURSIVE LinkedWithin(_, _)
LinkedWithin(seen, ids) ==
  LET more == {q \in ids \ seen :
                 \E p \in seen :
                   /\ Includes(PieceOf(state, p).neighborIds, q)
                   /\ ShareEdge(PieceOf(state, p), PieceOf(state, q))}
  IN IF more = {} THEN seen ELSE LinkedWithin(seen \cup more, ids)

\* C31: in every group, chains of neighbours that stay inside the group
\* link the first piece to every other piece.
C31_GroupsConnected ==
  \A n \in 1..Len(groups) :
    LinkedWithin({groups[n].pieceIds[1]}, Range(groups[n].pieceIds))
      = Range(groups[n].pieceIds)

\* A group of three pieces, two of them diagonal to each other and linked
\* through the third.
C31_Witness ==
  /\ last.op = "snap"
  /\ \E n \in 1..Len(groups) :
       /\ Cardinality(Range(groups[n].pieceIds)) = 3
       /\ \E p, q \in Range(groups[n].pieceIds) :
            /\ p # q
            /\ ~Includes(PieceOf(state, p).neighborIds, q)
       /\ LinkedWithin({groups[n].pieceIds[1]}, Range(groups[n].pieceIds))
            = Range(groups[n].pieceIds)

\* The pairs of piece ids that st has in a common group.
Together(st) ==
  {pair \in PieceIds \X PieceIds :
     \E i \in 1..Len(st.groups) :
        {pair[1], pair[2]} \subseteq Range(st.groups[i].pieceIds)}

\* C32: select, move, rotate, trySnap and release keep every pair of pieces
\* that shares a group in a common group, return no piece to the singles,
\* and do not increase the number of entities.
C32_GroupingMonotonic ==
  [][last'.op \in {"select", "move", "rotate", "snap", "release"}
     => /\ Together(state) \subseteq Together(state')
        /\ SinglesOf(state') \subseteq SinglesOf(state)
        /\ EntityCount(state') <= EntityCount(state)]_vars

\* A group of two was merged into a larger group by a later trySnap.
C32_Witness ==
  /\ last.op = "snap"
  /\ Len(last.merges) >= 1
  /\ \E k \in 1..Len(last.merges) :
       /\ Len(last.merges[k].neighbor.pieceIds) = 2
       /\ Range(last.merges[k].neighbor.pieceIds)
            \subseteq Range(NewGroupOf(state).pieceIds)
       /\ Cardinality(Range(NewGroupOf(state).pieceIds)) >= 3

\* C33: the rotation gate is symmetric: for the rotations of any two pieces
\* of the board, it accepts the first as active against the second exactly
\* when it accepts the second as active against the first.
C33_RotationGateSymmetric ==
  \A i, j \in 1..Len(pieces) :
    (pieces[i].rotation \in 0..359 /\ pieces[j].rotation \in 0..359)
    => (RotationGate(pieces[i].rotation, pieces[j].rotation)
          <=> RotationGate(pieces[j].rotation, pieces[i].rotation))

\* C34: select, move, rotate, trySnap and release leave the piece list as
\* long as it was and in the same order, and every piece keeps its id,
\* polygon, path, centroid and neighborIds.
C34_PieceShapeKept ==
  [][last'.op \in {"select", "move", "rotate", "snap", "release"}
     => /\ Len(pieces') = Len(pieces)
        /\ \A i \in 1..Len(pieces) :
             /\ pieces'[i].id = pieces[i].id
             /\ pieces'[i].polygon = pieces[i].polygon
             /\ pieces'[i].path = pieces[i].path
             /\ pieces'[i].centroid = pieces[i].centroid
             /\ pieces'[i].neighborIds = pieces[i].neighborIds]_vars

\* A piece was selected; its zIndex is the highest of the list and it is
\* still in its place in the list.
C34_Witness ==
  /\ last.op = "select"
  /\ last.effect
  /\ HasPiece(state, last.id)
  /\ \E i \in 2..Len(pieces) :
       /\ pieces[i].id = last.id
       /\ \A j \in 1..Len(pieces) : pieces[j].zIndex <= pieces[i].zIndex

\* C35: selectedId is null or the id of an entity of the board, an
\* ungrouped piece or a group.
C35_SelectionIsEntity ==
  selectedId \in EntityIds \cup {Null}

\* C35 without select calls on ids that name no entity: after every other
\* call, a selection that was null or an entity is null or an entity.
C35_SelectionKeptValid ==
  [][(/\ selectedId \in EntityIds \cup {Null}
      /\ last'.op = "select" => last'.id \in EntityIds \cup {Null})
     => selectedId' \in {groups'[i].id : i \in 1..Len(groups')}
                      \cup {Null}
                      \cup SinglesOf(state')]_vars

\* The distance of a rotation in [0, 360) from the nearest multiple of 90.
OffQuarter(rotation) ==
  Min(rotation % 90, 90 - (rotation % 90))

\* The rotation the released entity has after the release: that of the
\* group of the last merge, or its own.
ReleasedRotation(st, id, merges) ==
  IF merges = <<>> THEN ActiveOf(st, id).rotation
  ELSE NewGroupOf(st).rotation

C37_GestureEndsInSnap ==
  (last.op = "up" /\ touches = 0)
    => /\ \A id \in last.started : Includes(last.issued, id)
       /\ \A i \in 1..Len(last.issued) : last.issued[i] \in last.started

\* Position and rotation of every piece and group.
Poses ==
  <<[i \in 1..Len(pieces) |->
       <<pieces[i].x, pieces[i].y, pieces[i].rotation>>],
    [i \in 1..Len(groups) |->
       <<groups[i].x, groups[i].y, groups[i].rotation>>]>>

\* C38: while the game is paused no finger event moves or turns a piece or
\* a group, and none calls store.trySnap.
C38_PausedBoardStill ==
  [][(paused /\ last'.op \in GestureOps)
       => (Poses' = Poses /\ last'.snaps = <<>>)]_vars

\* The points of edge k of a piece from where the edge starts, the end of
\* the edge drawn before it, to where it ends.
EdgeCurve(piece, k) ==
  << <<piece.path[IF k = 1 THEN 4 ELSE k - 1].end[1] * 1000,
       piece.path[IF k = 1 THEN 4 ELSE k - 1].end[2] * 1000>> >>
  \o piece.path[k].points

Reversed(s) == [i \in 1..Len(s) |-> s[Len(s) + 1 - i]]

ErrorRaised ==
  TryBlock(last.request, last.env).state \in {"rejected", "thrown"}

\* C40: every request the worker handles ends in a response, and in a 500
\* response that starts with "Server error" when an error was raised while
\* it was handled; the promise of the handler is never rejected.
C40_ErrorsBecome500 ==
  last.op = "fetch"
  => /\ last.outcome.state = "fulfilled"
     /\ ErrorRaised => /\ last.outcome.value.kind = "response"
                       /\ last.outcome.value.status = 500
                       /\ last.outcome.value.head = "Server error"
====
